---------------------------- MODULE Spec2Model ----------------------------
(***************************************************************************)
(* TraiNex desktop: the schedule retrieval call syncTrainexIcs             *)
(* (src/src/main/trainexSync.ts) and the main process that starts it       *)
(* (src/src/main/index.ts); and the calendar decoder parseIcsToEvents      *)
(* (src/src/renderer/src/lib/ics/parseIcs.ts), record `ics`.               *)
(*                                                                         *)
(* One call of syncTrainexIcs is a record `run` that moves from one        *)
(* program position (pc) to the next.  Everything the browser, the portal  *)
(* and the caller's callbacks answer is chosen by the environment, one     *)
(* record `e` per step.                                                    *)
(***************************************************************************)
EXTENDS Integers, Sequences, FiniteSets, TLC

VARIABLES
    run,    \* the call of syncTrainexIcs under observation
    ref,    \* the same request run without callbacks (used by PairSpec only)
    m,      \* the main process: its module-level variables, the settings
            \* file, the clock and the retrievals in flight (MainSpec only)
    ics     \* the calendar decoder at work on one text (the decoder's
            \* specifications only)

vars == <<run, ref, m, ics>>

(***************************************************************************)
(* Values                                                                  *)
(***************************************************************************)
E_CREDS      == "Bitte Login und Passwort eingeben."
E_MONTH      == "Ungueltiger Monat."
E_NOBROWSER  == "Interner Browser fehlt (Playwright Chromium)."
E_LOGIN      == "Login fehlgeschlagen. Bitte Zugangsdaten pruefen."
E_LOAD       == "Sync fehlgeschlagen: iCal/ICS konnte nicht geladen werden."
E_UNEXPECTED == "Sync fehlgeschlagen (unerwarteter Fehler)."

NoHint == "no hint"
NoBody == [id |-> "none", asciiMarker |-> FALSE, utf16Marker |-> FALSE]

\* TrainexSyncResult, plus the two outcomes that are no result: still
\* running ("pending") and a rejected promise ("rejected", hint = message).
Pending       == [kind |-> "pending", body |-> NoBody, error |-> "", hint |-> NoHint]
Success(body) == [kind |-> "ok", body |-> body, error |-> "", hint |-> NoHint]
Failure(error, hint) == [kind |-> "fail", body |-> NoBody, error |-> error, hint |-> hint]
Rejected(msg) == [kind |-> "rejected", body |-> NoBody, error |-> "", hint |-> msg]

\* The three pages probed for session tokens, in the order of the array.
tokenBootstrapUrls == <<"list", "schedule", "index">>

\* A query value: <<>> is the empty string, <<n>> is String(n).
Str(n) == <<n>>
Empty  == <<>>

\* An export URL: its origin, whether it carries session-token parameters,
\* and its three date parameters.
NoUrl == [origin |-> "none", tok |-> FALSE, utag |-> Empty, umonat |-> Empty, ujahr |-> Empty]

icsCandidateUrl(a) ==
    [origin |-> "portal", tok |-> FALSE,
     utag   |-> IF a.day > 0 THEN Str(a.day) ELSE Empty,
     umonat |-> Str(a.month), ujahr |-> Str(a.year)]

applyDateParams(url, a) ==
    [url EXCEPT !.umonat = Str(a.month), !.ujahr = Str(a.year),
                !.utag = IF a.day > 0 THEN Str(a.day) ELSE Empty]

buildTokenizedIcalUrl(tokens, a) ==
    [origin |-> "portal", tok |-> tokens,
     utag   |-> IF a.day > 0 THEN Str(a.day) ELSE Empty,
     umonat |-> Str(a.month), ujahr |-> Str(a.year)]

\* Response bodies, by what the two byte checks see in them.
Bodies ==
    { [id |-> "A", asciiMarker |-> TRUE,  utf16Marker |-> FALSE],
      [id |-> "B", asciiMarker |-> FALSE, utf16Marker |-> TRUE],
      [id |-> "H", asciiMarker |-> FALSE, utf16Marker |-> FALSE] }

isIcsBytes(body) == body.asciiMarker
hasUtf16VCalendar(body) == body.utf16Marker
looksLikeIcs(body) == isIcsBytes(body) \/ hasUtf16VCalendar(body)

\* HTTP responses: resp.ok() and the body.
Resps == { rs \in [ok : BOOLEAN, body : Bodies] : ~rs.ok => rs.body.id = "A" }

\* Export links as page content can hold them (dates are the page's own).
PageLinks ==
    { [origin |-> "portal", tok |-> TRUE, utag |-> Str(1), umonat |-> Str(1), ujahr |-> Str(2025)] }

(***************************************************************************)
(* The request                                                             *)
(***************************************************************************)
Usernames == {"", "user"}
Passwords == {"", "secret"}
Months    == {0, 1, 12, 13}
Days      == {0, 5}
Years     == {2026}

\* Every combination, except that the lowest valid month is requested in
\* one way only (whole month, no callbacks, persistent profile).
Args ==
    { a \in [username : Usernames, password : Passwords, month : Months, year : Years,
             day : Days, log : BOOLEAN, status : BOOLEAN, profileDir : BOOLEAN] :
        a.month = 1 => (a.day = 0 /\ ~a.log /\ ~a.status /\ a.profileDir) }

(***************************************************************************)
(* One step's environment                                                  *)
(*   exc   which browser operation of the step raises (0: none)            *)
(*   cb    which callback invocation of the step raises (0: none)          *)
(*   a, b  yes/no answers of the browser                                   *)
(*   resp  the response of the step's fetch                                *)
(*   found, found2  links the page content holds                           *)
(*   w     the best-effort operations of the step that fail or time out:   *)
(*         "networkidle" (page.waitForLoadState), "content" (page.content) *)
(***************************************************************************)
DefaultEnv ==
    [exc |-> 0, cb |-> 0, a |-> FALSE, b |-> FALSE,
     resp |-> [ok |-> FALSE, body |-> CHOOSE x \in Bodies : x.id = "A"],
     found |-> NoUrl, found2 |-> NoUrl, w |-> {}]

\* one entry of the trace of navigations, form submissions and fetches
Op(op, by, k, url, ret) == [op |-> op, by |-> by, k |-> k, url |-> url, ret |-> ret]

\* the fetch of the step just taken: the response, whether it was read in
\* full (status, and for a 2xx response the body), and what tryFetch gave back
NoFetch == [resp |-> DefaultEnv.resp, read |-> FALSE, ret |-> "none"]

NewRun(a) ==
    [args |-> a, pc |-> "validate", k |-> 0,
     context |-> "null", browser |-> "none",
     login |-> "pending", tokens |-> FALSE, icalUrl |-> NoUrl,
     htmlAny |-> NoUrl, htmlHref |-> NoUrl,
     lastFetch |-> NoFetch, lastNav |-> "none", swallowed |-> {},
     lastSaid |-> {}, told |-> FALSE,
     trace |-> <<>>,
     \* the bootstrap pages whose final URL carried a session token, and
     \* those whose HTML was read for the scan of line 346
     tokenPages |-> {}, scanned |-> {},
     result |-> Pending, raised |-> "none", raisedBy |-> "none"]

\* log?.(...) / status?.(...) at invocation site `site` of the step raises
CbRaises(r, kind, e, site) == r.args[kind] /\ e.cb = site

\* catch (e) { return { ok: false, error, hint: e.message } }
Catch(r, msg, by) ==
    [r EXCEPT !.pc = "finally", !.result = Failure(E_UNEXPECTED, msg),
              !.raised = msg, !.raisedBy = by]

\* return <res> inside the try block: the finally block runs next
Return(r, res) == [r EXCEPT !.pc = "finally", !.result = res]

\* a logger call that passes the whole request along, which
\* C11_NoPasswordInDiagnostics has to tell from LogData
LogDataWithArgs(message) == {"const", "date", "username", "password"}

\* What the data of each log?.(message, data) call is made of:
\*   "const"  text written in the source (BASE_URL, paths, literals)
\*   "date"   the requested month, year and day
\*   "local"  what the machine says (the executable's path)
\*   "page"   what the browser says of the page (page.url(), goto's status)
\*   "portal" what the portal sent (response status, URL, headers, body
\*            preview, session tokens, whether a link was found)
\* The credentials would be "username" and "password".
LogData(message) ==
    CASE message = "sync:missing-browser"         -> {"local", "const"}
      [] message = "sync:navigate"                -> {"const"}
      [] message = "sync:navigate-done"           -> {"const", "page"}
      [] message = "sync:login-failed"            -> {}
      [] message = "sync:login-ok"                -> {"page"}
      [] message = "sync:fetch"                   -> {"const", "date", "portal"}
      [] message = "sync:fetch-not-ok"            -> {"const", "date", "portal"}
      [] message = "sync:fetch-not-ics"           -> {"const", "date", "portal", "page"}
      [] message = "sync:fetch-ok"                -> {"const", "date", "portal"}
      [] message = "sync:tokens-from-url"         -> {"portal"}
      [] message = "sync:discover-ical-from-page" -> {"portal"}
      [] message = "sync:discover-ical-any-index" -> {"portal"}
      [] message = "sync:discover-link-index"     -> {"portal"}
      [] message = "sync:discover-dom-index"      -> {"portal"}

\* status?.(text): every text is a literal
StatusData(text) == {"const"}

\* the callback was invoked with this data
Told(r, data) == [r EXCEPT !.lastSaid = @ \cup data, !.told = TRUE]

Log(r, e, site, message, then) ==
    IF ~r.args.log THEN then
    ELSE IF CbRaises(r, "log", e, site)
    THEN Catch(Told(r, LogData(message)), "log raised", "callback")
    ELSE Told(then, LogData(message))

Status(r, e, site, text, then) ==
    IF ~r.args.status THEN then
    ELSE IF CbRaises(r, "status", e, site)
    THEN Catch(Told(r, StatusData(text)), "status raised", "callback")
    ELSE Told(then, StatusData(text))

(***************************************************************************)
(* syncTrainexIcs, step by step                                            *)
(***************************************************************************)
\* the validation with the upper month limit off by one, which
\* C4_Validation has to tell from ValidateStep
ValidateStepMonth13(r) ==
    IF r.args.username = "" \/ r.args.password = ""
    THEN [r EXCEPT !.pc = "done", !.result = Failure(E_CREDS, NoHint)]
    ELSE IF r.args.month < 1 \/ r.args.month > 13
    THEN [r EXCEPT !.pc = "done", !.result = Failure(E_MONTH, NoHint)]
    ELSE [r EXCEPT !.pc = "import"]

\* lines 202-207
ValidateStep(r) ==
    IF r.args.username = "" \/ r.args.password = ""
    THEN [r EXCEPT !.pc = "done", !.result = Failure(E_CREDS, NoHint)]
    ELSE IF r.args.month < 1 \/ r.args.month > 12
    THEN [r EXCEPT !.pc = "done", !.result = Failure(E_MONTH, NoHint)]
    ELSE [r EXCEPT !.pc = "import"]

\* const { chromium } = await import('playwright'), before the try block
ImportStep(r, e) ==
    IF e.exc = 1
    THEN [r EXCEPT !.pc = "done", !.result = Rejected("import failed"),
                   !.raised = "import failed", !.raisedBy = "browser"]
    ELSE [r EXCEPT !.pc = "launch"]

tryLaunch(r, e) ==
    IF r.args.profileDir
    THEN IF e.exc = 1
         THEN Catch(r, "launchPersistentContext failed", "browser")
         ELSE [r EXCEPT !.context = "open", !.browser = "open", !.pc = "gotoLogin"]
    ELSE IF e.exc = 1
         THEN Catch(r, "launch failed", "browser")
         ELSE IF e.exc = 2
         THEN Catch([r EXCEPT !.browser = "open"], "newContext failed", "browser")
         ELSE [r EXCEPT !.context = "open", !.browser = "open", !.pc = "gotoLogin"]

\* e.a: the bundled executable exists; e.b: process.platform is win32
LaunchStep(r, e) ==
    IF e.a THEN tryLaunch(r, e)
    ELSE IF e.b THEN Log(r, e, 1, "sync:missing-browser", tryLaunch(r, e))
    ELSE Log(r, e, 1, "sync:missing-browser", Return(r, Failure(E_NOBROWSER, NoHint)))


Push(r, op) == [r EXCEPT !.trace = Append(@, op)]

\* page.goto issued by `by`; how it ended is kept for the next step only
Goto(r, by, how) == [Push(r, Op("goto", by, r.k, NoUrl, "issued")) EXCEPT !.lastNav = how]

\* what the previous step's fetch and navigation answered is forgotten
Fresh(r) ==
    [r EXCEPT !.lastFetch = NoFetch, !.lastNav = "none", !.swallowed = {},
              !.lastSaid = {}, !.told = FALSE]

\* a wait whose failure is not caught, which C30_BestEffortWaits has to
\* tell from Swallow
Uncaught(r, failed) ==
    IF failed = {} THEN r
    ELSE [r EXCEPT !.swallowed = failed, !.pc = "finally",
                   !.result = Failure(E_UNEXPECTED, "Timeout exceeded"),
                   !.raised = "Timeout exceeded", !.raisedBy = "browser"]

\* `.catch(() => {})` / `.catch(() => '')`: the operations of `failed` raised
\* and the handler made nothing of it; kept for the next step only
Swallow(r, failed) == [r EXCEPT !.swallowed = failed]

\* lines 244-255: newPage, status('Login...'), log, goto(BASE_URL), log
GotoLoginStep(r, e) ==
    IF e.exc = 1 THEN Catch(r, "newPage failed", "browser")
    ELSE Status(r, e, 1, "Login",
         Log(r, e, 2, "sync:navigate",
         IF e.exc = 2
         THEN Catch(Goto(r, "login", "raise"), "goto failed", "browser")
         ELSE LET r2 == Goto(r, "login", "ok")
              IN  Log(r2, e, 3, "sync:navigate-done", [r2 EXCEPT !.pc = "fillLogin"])))

\* lines 256-258: fillLoginForm, then the best-effort network-idle wait
FillLoginFormStep(r, e) ==
    IF e.exc = 1
    THEN Catch(r, "fillLoginForm failed", "browser")
    ELSE Swallow([Push(r, Op("submit", "login", 0, NoUrl, "ok")) EXCEPT !.pc = "checkLogin"],
                 e.w)

\* lines 259-265; e.a is what stillOnLoginPage(page) returns
CheckLoginStep(r, e) ==
    IF e.exc = 1 THEN Catch(r, "stillOnLoginPage failed", "browser")
    ELSE IF e.a
    THEN LET r2 == [r EXCEPT !.login = "failed"]
         IN  Log(r2, e, 1, "sync:login-failed", Return(r2, Failure(E_LOGIN, NoHint)))
    ELSE LET r2 == [r EXCEPT !.login = "passed"]
         IN  Log(r2, e, 1, "sync:login-ok", Status(r2, e, 2, "Stundenplan laden", [r2 EXCEPT !.pc = "bootNav", !.k = 1]))

\* a tryFetch that takes an exception of the request for a miss, which
\* C37_FetchExceptionAborts has to tell from tryFetch
tryFetchForgiving(r, by, url, e, off) ==
    LET fetched(ret, read) ==
            [Push(r, Op("fetch", by, r.k, url, ret))
                EXCEPT !.lastFetch = [resp |-> IF read THEN e.resp ELSE DefaultEnv.resp,
                                      read |-> read, ret |-> ret]]
        logged(ret, message) ==
            IF ~r.args.log THEN fetched(ret, TRUE)
            ELSE IF CbRaises(r, "log", e, off + 2)
            THEN Catch(Told(fetched("raise", TRUE), LogData(message)), "log raised", "callback")
            ELSE Told(fetched(ret, TRUE), LogData(message))
    IN  Log(r, e, off + 1, "sync:fetch",
        IF e.exc = 1 THEN fetched("raise", FALSE)
        ELSE IF ~e.resp.ok THEN logged("null", "sync:fetch-not-ok")
        ELSE IF e.exc = 2 THEN fetched("raise", FALSE)
        ELSE IF ~looksLikeIcs(e.resp.body) THEN logged("null", "sync:fetch-not-ics")
        ELSE logged("body", "sync:fetch-ok"))

\* tryFetch (lines 267-310) issued by chain step `by`; callback sites
\* off+1 (sync:fetch) and off+2 (the outcome).  The fetch is appended to the
\* trace with what tryFetch gave back: "null", "body" or "raise".
tryFetch(r, by, url, e, off) ==
    LET fetched(ret, read) ==
            [Push(r, Op("fetch", by, r.k, url, ret))
                EXCEPT !.lastFetch = [resp |-> IF read THEN e.resp ELSE DefaultEnv.resp,
                                      read |-> read, ret |-> ret]]
        logged(ret, message) ==
            IF ~r.args.log THEN fetched(ret, TRUE)
            ELSE IF CbRaises(r, "log", e, off + 2)
            THEN Catch(Told(fetched("raise", TRUE), LogData(message)), "log raised", "callback")
            ELSE Told(fetched(ret, TRUE), LogData(message))
    IN  Log(r, e, off + 1, "sync:fetch",
        IF e.exc = 1 THEN Catch(fetched("raise", FALSE), "request.get failed", "browser")
        ELSE IF ~e.resp.ok THEN logged("null", "sync:fetch-not-ok")
        ELSE IF e.exc = 2 THEN Catch(fetched("raise", FALSE), "resp.body failed", "browser")
        ELSE IF ~looksLikeIcs(e.resp.body) THEN logged("null", "sync:fetch-not-ics")
        ELSE logged("body", "sync:fetch-ok"))

\* const fetched = await tryFetch(url); if (fetched) return { ok: true, ... }
\* and otherwise on to `next`
FetchOrElse(r, by, url, e, off, next) ==
    LET r2 == tryFetch(r, by, url, e, off)
    IN  IF r2.pc = "finally" THEN r2
        ELSE IF r2.lastFetch.ret = "body"
        THEN Return(r2, Success(r2.lastFetch.resp.body))
        ELSE [r2 EXCEPT !.pc = next]

\* lines 318-332 for tokenBootstrapUrls[r.k]; e.b: goto fails and is
\* swallowed, and so is the network-idle wait (e.w); e.a: the final URL
\* carries a session token
BootNavStep(r, e) ==
    Log(r, e, 1, "sync:navigate",
        LET r1 == Swallow(Goto(r, "bootstrap", IF e.b THEN "failed" ELSE "ok"), e.w)
            r2 == [r1 EXCEPT !.tokenPages = IF e.a THEN @ \cup {r.k} ELSE @]
        IN  Log(r2, e, 2, "sync:navigate-done", Log(r2, e, 3, "sync:tokens-from-url",
                [r2 EXCEPT !.tokens = e.a,
                           !.pc = IF e.a THEN "bootTokMonth" ELSE "bootScan"])))

MonthScope(a) == [day |-> 0, month |-> a.month, year |-> a.year]
DayScope(a)   == [day |-> a.day, month |-> a.month, year |-> a.year]

\* lines 334-338
BootTokMonthStep(r, e) ==
    Status(r, e, 1, "Kalender laden",
        FetchOrElse(r, "bootToken", buildTokenizedIcalUrl(r.tokens, MonthScope(r.args)),
                    e, 1, "bootTokDay"))

\* lines 340-342
BootTokDayStep(r, e) ==
    FetchOrElse(r, "bootToken", buildTokenizedIcalUrl(r.tokens, DayScope(r.args)),
                e, 0, "bootScan")

\* a loop that ends after its first page, which C2_ChainOrder has to tell
\* from NextBoot
NextBootBreak(r) ==
    [r EXCEPT !.k = 0, !.pc = "directMonth", !.tokens = FALSE, !.icalUrl = NoUrl]

\* a loop that goes round once more than there are pages, which
\* C36_BoundedChain has to tell from NextBoot
NextBootOnceMore(r) ==
    IF r.k < Len(tokenBootstrapUrls) + 1
    THEN [r EXCEPT !.k = @ + 1, !.pc = "bootNav", !.tokens = FALSE, !.icalUrl = NoUrl]
    ELSE [r EXCEPT !.k = 0, !.pc = "directMonth", !.tokens = FALSE, !.icalUrl = NoUrl]

\* after the last statement of the loop body: the next page, or the
\* statement after the loop
NextBoot(r) ==
    IF r.k < Len(tokenBootstrapUrls)
    THEN [r EXCEPT !.k = @ + 1, !.pc = "bootNav", !.tokens = FALSE, !.icalUrl = NoUrl]
    ELSE [r EXCEPT !.k = 0, !.pc = "directMonth", !.tokens = FALSE, !.icalUrl = NoUrl]

\* lines 345-347; e.found is findAnyIcalUrlFromHtml(html), NoUrl for null
\* and when page.content() failed (html is '')
BootScanStepFrom(r, e) ==
    LET r2 == [r EXCEPT !.scanned = @ \cup {r.k}]
    IN  Log(r2, e, 1, "sync:discover-ical-from-page",
            IF e.found # NoUrl
            THEN [r2 EXCEPT !.icalUrl = e.found, !.pc = "bootPageMonth"]
            ELSE NextBoot([r2 EXCEPT !.icalUrl = NoUrl]))

BootScanStep(r, e) == BootScanStepFrom(Swallow(r, e.w), e)

\* lines 348-352
BootPageMonthStep(r, e) ==
    Status(r, e, 1, "Kalender laden",
        FetchOrElse(r, "bootPage", applyDateParams(r.icalUrl, MonthScope(r.args)),
                    e, 1, "bootPageDay"))

\* lines 354-357
BootPageDayStep(r, e) ==
    LET r2 == FetchOrElse(r, "bootPage", applyDateParams(r.icalUrl, DayScope(r.args)),
                          e, 0, "bootPageDay")
    IN  IF r2.pc = "finally" THEN r2 ELSE NextBoot(r2)

\* lines 360-361
DirectMonthStep(r, e) ==
    FetchOrElse(r, "direct", icsCandidateUrl(MonthScope(r.args)), e, 0, "directDay")

\* lines 363-364
DirectDayStep(r, e) ==
    FetchOrElse(r, "direct", icsCandidateUrl(DayScope(r.args)), e, 0, "indexNav")

\* lines 366-373; e.b: goto fails and is swallowed; e.found is findAnyIcalUrlFromHtml(htmlIndex), e.found2 is
\* findIcsExportUrlFromHtml(htmlIndex), used at line 384
IndexNavStep(r, e) ==
    Log(r, e, 1, "sync:navigate",
        LET r2 == [Swallow(Goto(r, "index", IF e.b THEN "failed" ELSE "ok"), e.w)
                      EXCEPT !.htmlAny = e.found, !.htmlHref = e.found2]
        IN  Log(r2, e, 2, "sync:discover-ical-any-index",
                [r2 EXCEPT !.pc = IF e.found # NoUrl THEN "indexMonth" ELSE "indexHref"]))

\* lines 374-377
IndexMonthStep(r, e) ==
    FetchOrElse(r, "indexScan", applyDateParams(r.htmlAny, MonthScope(r.args)),
                e, 0, "indexDay")

\* lines 379-382
IndexDayStep(r, e) ==
    FetchOrElse(r, "indexScan", applyDateParams(r.htmlAny, DayScope(r.args)),
                e, 0, "indexHref")

\* lines 384-389
IndexHrefStep(r, e) ==
    Log(r, e, 1, "sync:discover-link-index",
        IF r.htmlHref # NoUrl
        THEN FetchOrElse(r, "indexHref", r.htmlHref, e, 1, "dom")
        ELSE [r EXCEPT !.pc = "dom"])

\* lines 391-396; e.exc = 3: discoverIcsUrl raises; e.found is its result
DomStep(r, e) ==
    IF e.exc = 3 THEN Catch(r, "discoverIcsUrl failed", "browser")
    ELSE Log(r, e, 1, "sync:discover-dom-index",
         IF e.found # NoUrl
         THEN FetchOrElse(r, "dom", e.found, e, 1, "exhausted")
         ELSE [r EXCEPT !.pc = "exhausted"])

\* lines 398-401
ExhaustedStep(r) == Return(r, Failure(E_LOAD, NoHint))

\* lines 408-412: context?.close() and, through context.browser() or the
\* persistent context itself, the browser process
FinallyStep(r) ==
    [r EXCEPT !.pc = "done",
              !.context = IF @ = "open" THEN "closed" ELSE @,
              !.browser = IF r.context = "open" /\ @ = "open" THEN "closed" ELSE @]


(***************************************************************************)
(* What the environment can answer at each program position                *)
(***************************************************************************)
Envs(excs, cbs, as, bs, resps, founds, founds2) ==
    { e \in [exc : excs, cb : cbs, a : as, b : bs, resp : resps, found : founds,
             found2 : founds2, w : {{}}] :
        \* of a raising operation and a raising callback only the earlier
        \* one happens: one of them per step is every case
        ~(e.exc # 0 /\ e.cb # 0) }

No    == {FALSE}
NoR   == {DefaultEnv.resp}
NoF   == {NoUrl}
Links == {NoUrl} \cup PageLinks

\* the environments of `envs`, each with every set of `waits` failing; a
\* page whose content could not be read shows no link
Failing(envs, waits) ==
    { x \in { [e EXCEPT !.w = w] : e \in envs, w \in SUBSET waits } :
        "content" \in x.w => x.found = NoUrl /\ x.found2 = NoUrl }

\* findIcsExportUrlFromHtml matches only text findAnyIcalUrlFromHtml matches too
IndexEnvs == { e \in Failing(Envs({0}, 0..2, No, BOOLEAN, NoR, Links, Links),
                             {"networkidle", "content"}) :
                 e.found2 # NoUrl => e.found # NoUrl }

EnvFor(pc) ==
    CASE pc = "import"        -> Envs(0..1, {0}, No, No, NoR, NoF, NoF)
      [] pc = "launch"        -> Envs(0..2, 0..1, BOOLEAN, BOOLEAN, NoR, NoF, NoF)
      [] pc = "gotoLogin"     -> Envs(0..2, 0..3, No, No, NoR, NoF, NoF)
      [] pc = "fillLogin"     -> Failing(Envs(0..1, {0}, No, No, NoR, NoF, NoF), {"networkidle"})
      [] pc = "checkLogin"    -> Envs(0..1, 0..2, BOOLEAN, No, NoR, NoF, NoF)
      [] pc = "bootNav"       -> Failing(Envs({0}, 0..3, BOOLEAN, BOOLEAN, NoR, NoF, NoF),
                                         {"networkidle"})
      [] pc = "bootTokMonth"  -> Envs(0..2, 0..3, No, No, Resps, NoF, NoF)
      [] pc = "bootTokDay"    -> Envs(0..2, 0..2, No, No, Resps, NoF, NoF)
      [] pc = "bootScan"      -> Failing(Envs({0}, 0..1, No, No, NoR, Links, NoF), {"content"})
      [] pc = "bootPageMonth" -> Envs(0..2, 0..3, No, No, Resps, NoF, NoF)
      [] pc = "bootPageDay"   -> Envs(0..2, 0..2, No, No, Resps, NoF, NoF)
      [] pc = "directMonth"   -> Envs(0..2, 0..2, No, No, Resps, NoF, NoF)
      [] pc = "directDay"     -> Envs(0..2, 0..2, No, No, Resps, NoF, NoF)
      [] pc = "indexNav"      -> IndexEnvs
      [] pc = "indexMonth"    -> Envs(0..2, 0..2, No, No, Resps, NoF, NoF)
      [] pc = "indexDay"      -> Envs(0..2, 0..2, No, No, Resps, NoF, NoF)
      [] pc = "indexHref"     -> Envs(0..2, 0..3, No, No, Resps, NoF, NoF)
      [] pc = "dom"           -> Envs(0..3, 0..3, No, No, Resps, Links, NoF)
      [] OTHER                -> {DefaultEnv}

(***************************************************************************)
(* One call: Spec                                                          *)
(***************************************************************************)
NoRun == [pc |-> "unused"]

NoMain == [ready |-> FALSE]

NoIcs == [pc |-> "unused"]

Init == /\ run \in { NewRun(a) : a \in Args }
        /\ ref = NoRun
        /\ m = NoMain
        /\ ics = NoIcs

At(pc) == run.pc = pc

Validate      == At("validate") /\ run' = ValidateStep(Fresh(run)) /\ UNCHANGED <<ref, m, ics>>
ImportPlaywright ==
    At("import") /\ \E e \in EnvFor("import") : run' = ImportStep(Fresh(run), e) /\ UNCHANGED <<ref, m, ics>>
LaunchBrowser ==
    At("launch") /\ \E e \in EnvFor("launch") : run' = LaunchStep(Fresh(run), e) /\ UNCHANGED <<ref, m, ics>>
GotoLogin ==
    At("gotoLogin") /\ \E e \in EnvFor("gotoLogin") : run' = GotoLoginStep(Fresh(run), e) /\ UNCHANGED <<ref, m, ics>>
FillLoginForm ==
    At("fillLogin") /\ \E e \in EnvFor("fillLogin") : run' = FillLoginFormStep(Fresh(run), e) /\ UNCHANGED <<ref, m, ics>>
CheckLogin ==
    At("checkLogin") /\ \E e \in EnvFor("checkLogin") : run' = CheckLoginStep(Fresh(run), e) /\ UNCHANGED <<ref, m, ics>>
BootNav ==
    At("bootNav") /\ \E e \in EnvFor("bootNav") : run' = BootNavStep(Fresh(run), e) /\ UNCHANGED <<ref, m, ics>>
BootTokMonth ==
    At("bootTokMonth") /\ \E e \in EnvFor("bootTokMonth") : run' = BootTokMonthStep(Fresh(run), e) /\ UNCHANGED <<ref, m, ics>>
BootTokDay ==
    At("bootTokDay") /\ \E e \in EnvFor("bootTokDay") : run' = BootTokDayStep(Fresh(run), e) /\ UNCHANGED <<ref, m, ics>>
BootScan ==
    At("bootScan") /\ \E e \in EnvFor("bootScan") : run' = BootScanStep(Fresh(run), e) /\ UNCHANGED <<ref, m, ics>>
BootPageMonth ==
    At("bootPageMonth") /\ \E e \in EnvFor("bootPageMonth") : run' = BootPageMonthStep(Fresh(run), e) /\ UNCHANGED <<ref, m, ics>>
BootPageDay ==
    At("bootPageDay") /\ \E e \in EnvFor("bootPageDay") : run' = BootPageDayStep(Fresh(run), e) /\ UNCHANGED <<ref, m, ics>>
DirectMonth ==
    At("directMonth") /\ \E e \in EnvFor("directMonth") : run' = DirectMonthStep(Fresh(run), e) /\ UNCHANGED <<ref, m, ics>>
DirectDay ==
    At("directDay") /\ \E e \in EnvFor("directDay") : run' = DirectDayStep(Fresh(run), e) /\ UNCHANGED <<ref, m, ics>>
IndexNav ==
    At("indexNav") /\ \E e \in EnvFor("indexNav") : run' = IndexNavStep(Fresh(run), e) /\ UNCHANGED <<ref, m, ics>>
IndexMonth ==
    At("indexMonth") /\ \E e \in EnvFor("indexMonth") : run' = IndexMonthStep(Fresh(run), e) /\ UNCHANGED <<ref, m, ics>>
IndexDay ==
    At("indexDay") /\ \E e \in EnvFor("indexDay") : run' = IndexDayStep(Fresh(run), e) /\ UNCHANGED <<ref, m, ics>>
IndexHref ==
    At("indexHref") /\ \E e \in EnvFor("indexHref") : run' = IndexHrefStep(Fresh(run), e) /\ UNCHANGED <<ref, m, ics>>
Dom ==
    At("dom") /\ \E e \in EnvFor("dom") : run' = DomStep(Fresh(run), e) /\ UNCHANGED <<ref, m, ics>>
Exhausted     == At("exhausted") /\ run' = ExhaustedStep(Fresh(run)) /\ UNCHANGED <<ref, m, ics>>
Finally       == At("finally") /\ run' = FinallyStep(run) /\ UNCHANGED <<ref, m, ics>>

Next ==
    \/ Validate \/ ImportPlaywright \/ LaunchBrowser \/ GotoLogin
    \/ FillLoginForm \/ CheckLogin
    \/ BootNav \/ BootTokMonth \/ BootTokDay \/ BootScan \/ BootPageMonth \/ BootPageDay
    \/ DirectMonth \/ DirectDay
    \/ IndexNav \/ IndexMonth \/ IndexDay \/ IndexHref \/ Dom
    \/ Exhausted \/ Finally

Spec == Init /\ [][Next]_vars


(***************************************************************************)
(* Two calls side by side: PairSpec                                        *)
(* `run` is called with callbacks, `ref` with the same request and no      *)
(* callbacks; while both are at the same program position the browser and  *)
(* the portal answer both alike.                                           *)
(***************************************************************************)
StepOf(r, e) ==
    CASE r.pc = "validate"      -> ValidateStep(Fresh(r))
      [] r.pc = "import"        -> ImportStep(Fresh(r), e)
      [] r.pc = "launch"        -> LaunchStep(Fresh(r), e)
      [] r.pc = "gotoLogin"     -> GotoLoginStep(Fresh(r), e)
      [] r.pc = "fillLogin"     -> FillLoginFormStep(Fresh(r), e)
      [] r.pc = "checkLogin"    -> CheckLoginStep(Fresh(r), e)
      [] r.pc = "bootNav"       -> BootNavStep(Fresh(r), e)
      [] r.pc = "bootTokMonth"  -> BootTokMonthStep(Fresh(r), e)
      [] r.pc = "bootTokDay"    -> BootTokDayStep(Fresh(r), e)
      [] r.pc = "bootScan"      -> BootScanStep(Fresh(r), e)
      [] r.pc = "bootPageMonth" -> BootPageMonthStep(Fresh(r), e)
      [] r.pc = "bootPageDay"   -> BootPageDayStep(Fresh(r), e)
      [] r.pc = "directMonth"   -> DirectMonthStep(Fresh(r), e)
      [] r.pc = "directDay"     -> DirectDayStep(Fresh(r), e)
      [] r.pc = "indexNav"      -> IndexNavStep(Fresh(r), e)
      [] r.pc = "indexMonth"    -> IndexMonthStep(Fresh(r), e)
      [] r.pc = "indexDay"      -> IndexDayStep(Fresh(r), e)
      [] r.pc = "indexHref"     -> IndexHrefStep(Fresh(r), e)
      [] r.pc = "dom"           -> DomStep(Fresh(r), e)
      [] r.pc = "exhausted"     -> ExhaustedStep(Fresh(r))
      [] r.pc = "finally"       -> FinallyStep(r)

WithoutCallbacks(a) == [a EXCEPT !.log = FALSE, !.status = FALSE]

PairInit ==
    \E a \in Args :
        /\ a.month = 12 /\ a.username # "" /\ a.password # "" /\ a.profileDir
        /\ run = NewRun(a)
        /\ ref = NewRun(WithoutCallbacks(a))
        /\ m = NoMain
        /\ ics = NoIcs

InStep == run.pc = ref.pc /\ run.k = ref.k /\ run.trace = ref.trace

\* both calls take the same step and get the same answers
PairStep ==
    /\ InStep /\ run.pc # "done"
    /\ \E e \in EnvFor(run.pc) : run' = StepOf(run, e) /\ ref' = StepOf(ref, e)
    /\ UNCHANGED <<m, ics>>

\* the two calls have come apart (a callback of `run` raised): `run`
\* finishes first
RunAlone ==
    /\ ~InStep /\ run.pc # "done"
    /\ \E e \in EnvFor(run.pc) : run' = StepOf(run, e)
    /\ UNCHANGED <<ref, m, ics>>

\* ... and `ref` goes on by itself; from here on the portal answers every
\* fetch with a non-2xx response and serves pages without tokens or links
RefAlone ==
    /\ ~InStep /\ run.pc = "done" /\ ref.pc # "done"
    /\ ref' = StepOf(ref, DefaultEnv)
    /\ UNCHANGED <<run, m, ics>>

PairNext == PairStep \/ RunAlone \/ RefAlone

PairSpec == PairInit /\ [][PairNext]_vars


(***************************************************************************)
(* Properties of one call                                                  *)
(***************************************************************************)
Ended(r)   == r.pc \in {"finally", "done"}
IsFetch(o) == o.op = "fetch"
FetchIdx(r) == { i \in 1..Len(r.trace) : IsFetch(r.trace[i]) }
LastOp(r)  == r.trace[Len(r.trace)]

\* the place of a chain operation in the order bootstrap pages 1..3, direct
\* construction, index page, DOM anchors
Stage(o) ==
    CASE o.by \in {"bootstrap", "bootToken", "bootPage"} -> o.k
      [] o.by = "direct"                   -> 4
      [] o.by \in {"index", "indexScan", "indexHref"} -> 5
      [] o.by = "dom"                      -> 6
      [] OTHER                             -> 0

Has(r, j, op, by, k) ==
    \E i \in 1..(j - 1) : r.trace[i].op = op /\ r.trace[i].by = by /\ r.trace[i].k = k

\* C1 (short-circuit), as claimed: once a fetch attempt has read a 2xx
\* response whose body passes the calendar check, the call is over with
\* Success carrying that body, and that fetch is the last navigation or fetch
\* of the call; a fetch that did not miss is never followed by another
\* operation.
C1_ShortCircuit ==
    /\ (run.lastFetch.read /\ run.lastFetch.resp.ok /\ looksLikeIcs(run.lastFetch.resp.body))
          => /\ Ended(run) /\ IsFetch(LastOp(run))
             /\ run.result = Success(run.lastFetch.resp.body)
    /\ \A i \in FetchIdx(run) :
          run.trace[i].ret # "null" => i = Len(run.trace) /\ Ended(run)

\* C2 (chain order): navigations and fetches of the chain are issued in the
\* order bootstrap page 1, 2, 3, direct construction, index page, DOM; every
\* fetch that is followed by another operation has missed; and an operation
\* of a later strategy comes only after every earlier strategy was attempted
\* (each bootstrap page visited, both direct URLs fetched, the index page
\* visited).  Stated of the newest operation j against all before it: the
\* trace only grows, so every operation was the newest one in some state.
C2_ChainOrder ==
    LET t == run.trace
        j == Len(t)
    IN  (j > 0 /\ Stage(t[j]) > 0) =>
          /\ \A i \in 1..(j - 1) :
                /\ Stage(t[i]) > 0 => Stage(t[i]) <= Stage(t[j])
                /\ IsFetch(t[i]) => t[i].ret = "null"
          /\ \A k \in 1..Len(tokenBootstrapUrls) :
                (k <= Stage(t[j]) /\ ~(t[j].op = "goto" /\ t[j].k = k))
                    => Has(run, j, "goto", "bootstrap", k)
          /\ Stage(t[j]) >= 5 =>
                Cardinality({ i \in 1..(j - 1) : t[i].by = "direct" }) = 2
          /\ (Stage(t[j]) >= 5 /\ IsFetch(t[j])) => Has(run, j, "goto", "index", 0)
          /\ run.login = "passed"

\* C2 witness: a DOM-anchor fetch was issued after fetches of every earlier
\* strategy (tokenized, page scan, direct, index scan, index href).
C2_Witness ==
    /\ run.trace # <<>> /\ LastOp(run).by = "dom" /\ IsFetch(LastOp(run))
    /\ \A by \in {"bootToken", "bootPage", "direct", "indexScan", "indexHref"} :
          \E i \in FetchIdx(run) : run.trace[i].by = by

\* C3 (login-failure detection), as claimed: once stillOnLoginPage has
\* answered "still on the login page" the call issues no fetch and no
\* bootstrap navigation and returns the authentication failure; and every
\* fetch is issued after the login check has passed.
C3_LoginFailure ==
    /\ run.login = "failed" =>
          /\ \A i \in 1..Len(run.trace) : Stage(run.trace[i]) = 0
          /\ Ended(run) => run.result = Failure(E_LOGIN, NoHint)
    /\ FetchIdx(run) # {} => run.login = "passed"

\* C4 (validation): with an empty username or password, or a month outside
\* 1..12, the call is over right after validation with the validation
\* failure, and no browser was launched, nothing navigated, nothing fetched.
Invalid(a) == a.username = "" \/ a.password = "" \/ a.month < 1 \/ a.month > 12

C4_Validation ==
    (Invalid(run.args) /\ run.pc # "validate") =>
        /\ run.pc = "done"
        /\ run.result = Failure(IF run.args.username = "" \/ run.args.password = ""
                                THEN E_CREDS ELSE E_MONTH, NoHint)
        /\ run.trace = <<>>
        /\ run.browser = "none" /\ run.context = "null"

\* C4 witness: a request with credentials and month 13 has been refused.
C4_Witness ==
    /\ run.pc = "done" /\ run.args.month = 13 /\ run.args.username # ""
    /\ run.args.password # "" /\ run.result.error = E_MONTH

\* C5 (guaranteed release), as claimed: when the call is over, no browser
\* process and no browser context launched by it is still open.
C5_GuaranteedRelease ==
    run.pc = "done" => run.browser # "open" /\ run.context # "open"

\* C6 (no raw exception), as claimed: a call in which some step after
\* validation raised resolves to the unexpected-error Failure with the
\* exception's message as hint, and no call ends in a rejected promise.
C6_NoRawException ==
    run.pc = "done" =>
        /\ run.result.kind # "rejected"
        /\ run.raised # "none" => run.result = Failure(E_UNEXPECTED, run.raised)

\* C7 (miss semantics), as claimed: a fetch whose response was non-2xx, or
\* 2xx without calendar content, gave back a miss and the call goes on.
C7_MissSemantics ==
    (run.lastFetch.read /\ (~run.lastFetch.resp.ok \/ ~looksLikeIcs(run.lastFetch.resp.body)))
        => run.lastFetch.ret = "null" /\ ~Ended(run)

\* C8 (exhaustion), as claimed: a call that passed login, went through the
\* chain up to a fetch of the DOM-discovered link, and got a non-2xx or
\* non-calendar response to every fetch ends with the could-not-load
\* Failure without hint; and that Failure is produced in no other way.
MissedAt(r, i) ==
    \/ r.trace[i].ret = "null"
    \/ /\ i = Len(r.trace) /\ r.trace[i].ret = "raise" /\ r.lastFetch.read
       /\ ~(r.lastFetch.resp.ok /\ looksLikeIcs(r.lastFetch.resp.body))

AllMissed(r) == \A i \in FetchIdx(r) : MissedAt(r, i)

DomFetched(r) == r.trace # <<>> /\ IsFetch(LastOp(r)) /\ LastOp(r).by = "dom"

C8_Exhaustion ==
    run.pc = "done" =>
        /\ (run.login = "passed" /\ DomFetched(run) /\ AllMissed(run))
              => run.result = Failure(E_LOAD, NoHint)
        /\ run.result.error = E_LOAD =>
              run.login = "passed" /\ AllMissed(run) /\ run.result.hint = NoHint

\* C10 (observational callbacks), as claimed: when both calls are over, the
\* call with callbacks and the call without have returned the same result
\* and issued the same navigations and fetches.
C10_ObservationalCallbacks ==
    (run.pc = "done" /\ ref.pc = "done") =>
        run.result = ref.result /\ run.trace = ref.trace


(***************************************************************************)
(* The main process (src/src/main/index.ts): MainSpec                      *)
(* Time is counted in minutes; the hour in Europe/Berlin is the hour of    *)
(* the day of that count.                                                  *)
(***************************************************************************)
\* user names and passwords are texts (sequences of characters); of the
\* texts below, "u" with "x\np" and "u\nx" with "p" join to the same text
NoText     == <<>>
Users      == {<<"u">>, <<"u", "\n", "x">>}
UserPws    == {NoText, <<"p">>}
\* the credentials typed into the sync form
Logins ==
    { [username |-> <<"u">>, password |-> NoText],
      [username |-> <<"u">>, password |-> <<"p">>],
      [username |-> <<"u">>, password |-> <<"x", "\n", "p">>] }
NoPassword == <<>>
NoHash     == <<>>

\* bounds of the model
MaxCalls    == 2      \* retrievals in flight at once
MaxAdvances == 2      \* times the clock is moved on
ClockStep   == 60     \* minutes the clock moves at a time
StartTimes  == {1170}  \* 19:30; the clock then shows 20:30 and 21:30

\* index.ts: 2 * 60 * 60 * 1000 ms, and the hours of inBerlinAutoWindow
CooldownMin == 120
WindowFrom  == 6
WindowTo    == 20

DefaultSettings ==
    [username |-> NoText, encryptedPasswordBase64 |-> NoPassword, autoRefreshEnabled |-> FALSE]

\* sha256 of `${username}\n${password}`: the joined text stands for its
\* digest (two different texts have different digests)
credentialsHash(username, password) == username \o <<"\n">> \o password
encryptAndStorePassword(password)   == <<"enc", password>>
decryptStoredPassword(blob)         == blob[2]

setUsername(st, username)          == [st EXCEPT !.username = username]
setAutoRefreshEnabled(st, enabled) == [st EXCEPT !.autoRefreshEnabled = enabled]
clearSavedPassword(st)             == [st EXCEPT !.encryptedPasswordBase64 = NoPassword]

berlinHour(now)         == (now \div 60) % 24
inBerlinAutoWindow(now) == berlinHour(now) >= WindowFrom /\ berlinHour(now) <= WindowTo

NoCredentials == [username |-> NoText, password |-> NoText]

\* A decoded calendar text is a sequence of UTF-16 code units; the two
\* texts a retrieval can bring ("A", "B")
TextA     == <<65>>
TextB     == <<66>>
SyncTexts == {TextA, TextB}

\* the bytes of one code unit in UTF-8 as Node writes a string: a
\* surrogate that is not part of a pair is written as U+FFFD (EF BF BD);
\* pairs do not occur in the texts of the model
Utf8OfUnit(c) ==
    IF c < 128 THEN <<c>>
    ELSE IF c < 2048 THEN <<192 + (c \div 64), 128 + (c % 64)>>
    ELSE IF c >= 55296 /\ c <= 57343 THEN <<239, 191, 189>>
    ELSE <<224 + (c \div 4096), 128 + ((c \div 64) % 64), 128 + (c % 64)>>

RECURSIVE Utf8Of(_)
Utf8Of(text) == IF text = <<>> THEN <<>> ELSE Utf8OfUnit(text[1]) \o Utf8Of(Tail(text))

\* cache/latest.ics: absent, or a file of bytes
NoFile == [exists |-> FALSE, bytes |-> <<>>]

\* lines 436-440: fs.writeFileSync(getLastIcsCachePath(), icsText, 'utf-8')
writeLastIcsCache(icsText) == [exists |-> TRUE, bytes |-> Utf8Of(icsText)]

InitMain ==
    [ready |-> FALSE,
     settings |-> DefaultSettings, disk |-> DefaultSettings,
     autoRefreshTimer |-> FALSE, autoRefreshRunning |-> FALSE,
     lastAutoRefreshAtMs |-> 0, lastVerifiedCredentialsHash |-> NoHash,
     calls |-> <<>>, cache |-> NoFile,
     now |-> 0, advances |-> 0,
     \* what has happened so far:
     \*   autoStarts  when the last two retrievals of runAutoRefreshTick started
     \*   lastSet     savePassword of the last 'settings:set' that returned ok
     \*   lastManual  the credentials of the last manual sync that succeeded
     \*   unverified  a password was handed to encryptAndStorePassword that,
     \*               with its user name, was not lastManual of that moment
     \*   intervals   the timers of setInterval that clearInterval has not
     \*               stopped
     autoStarts |-> <<>>, lastSet |-> "none", intervals |-> 0,
     lastManual |-> NoCredentials, unverified |-> FALSE]

\* what the platform answers to one handler
\*   decryptFails  safeStorage.decryptString raises
\*   preRaises     the logger or mkdirSync raises before the retrieval starts
\*   canEncrypt    safeStorage.isEncryptionAvailable()
\*   saveRaises    writing settings.json raises
MainEnvs == [decryptFails : BOOLEAN, preRaises : BOOLEAN, canEncrypt : BOOLEAN, saveRaises : BOOLEAN]
\* the answers a handler without settings to store can tell apart
SyncEnvs == { e \in MainEnvs : e.canEncrypt /\ ~e.saveRaises }
StartEnvs == { e \in SyncEnvs : ~e.decryptFails }
\* ... and those 'settings:set' can tell apart
SettingsEnvs == { e \in MainEnvs : (~e.canEncrypt \/ e.saveRaises) => (~e.decryptFails /\ ~e.preRaises) }

\* runSyncWithCredentials up to `await syncTrainexIcs(...)`, lines 155-181
StartSync(st, source, username, password, e) ==
    IF e.preRaises THEN st
    ELSE [st EXCEPT !.calls = Append(@, [source |-> source, username |-> username,
                                         password |-> password]),
                    !.autoStarts = IF source # "auto" THEN @
                                   ELSE IF @ = <<>> THEN <<st.now>>
                                   ELSE <<@[Len(@)], st.now>>]

\* runAutoRefreshTick up to its await, lines 113-144; when the retrieval
\* does not even start, the finally block (line 147) resets the flag at once
runAutoRefreshTick(st, e) ==
    IF st.autoRefreshRunning THEN st
    ELSE IF ~st.settings.autoRefreshEnabled THEN st
    ELSE IF st.settings.encryptedPasswordBase64 = NoPassword THEN st
    ELSE IF ~inBerlinAutoWindow(st.now) THEN st
    ELSE IF st.now - st.lastAutoRefreshAtMs < CooldownMin THEN st
    ELSE IF st.settings.username = NoText THEN st
    ELSE IF e.decryptFails THEN st
    ELSE LET started == StartSync(st, "auto", st.settings.username,
                                  decryptStoredPassword(st.settings.encryptedPasswordBase64), e)
         IN  [started EXCEPT !.autoRefreshRunning = ~e.preRaises]

\* lines 95-111: the timer is replaced and the first tick runs at once
startOrStopAutoRefresh(st, e) ==
    LET cleared == [st EXCEPT !.autoRefreshTimer = FALSE,
                              !.intervals = IF st.autoRefreshTimer THEN @ - 1 ELSE @]
    IN  IF ~st.settings.autoRefreshEnabled THEN cleared
        ELSE IF st.settings.encryptedPasswordBase64 = NoPassword THEN cleared
        ELSE runAutoRefreshTick([cleared EXCEPT !.autoRefreshTimer = TRUE,
                                                !.intervals = @ + 1], e)

RemoveAt(seq, i) == [ j \in 1..(Len(seq) - 1) |-> IF j < i THEN seq[j] ELSE seq[j + 1] ]

\* runSyncWithCredentials after the await, lines 193-228, for the retrieval
\* calls[i]; outcome is "ok", "fail" or "rejected", text the decoded
\* calendar; post = 1: writeLastIcsCache raises, post = 2: the logger or a
\* send raises after it.  The result is the state and whether the function
\* returned (rather than raised).
FinishSync(st, i, outcome, text, post) ==
    LET c    == st.calls[i]
        rest == [st EXCEPT !.calls = RemoveAt(@, i)]
    IN  IF outcome = "rejected" THEN [st |-> rest, returned |-> FALSE]
        ELSE IF outcome = "fail" THEN [st |-> rest, returned |-> (post = 0)]
        ELSE IF post = 1 THEN [st |-> rest, returned |-> FALSE]
        ELSE LET cached == [rest EXCEPT !.cache = writeLastIcsCache(text)]
             IN  IF post = 2 THEN [st |-> cached, returned |-> FALSE]
                 ELSE LET verified ==
                              IF c.source = "manual"
                              THEN [cached EXCEPT !.lastVerifiedCredentialsHash =
                                                      credentialsHash(c.username, c.password),
                                                  !.lastManual =
                                                      [username |-> c.username,
                                                       password |-> c.password]]
                              ELSE cached
                          stamped ==
                              IF /\ c.source # "auto"
                                 /\ verified.settings.autoRefreshEnabled
                                 /\ verified.settings.encryptedPasswordBase64 # NoPassword
                              THEN [verified EXCEPT !.lastAutoRefreshAtMs = verified.now]
                              ELSE verified
                      IN  [st |-> stamped, returned |-> TRUE]

\* ... and, for a retrieval started by runAutoRefreshTick, lines 145-148
AfterSync(st, i, outcome, text, post) ==
    LET f == FinishSync(st, i, outcome, text, post)
    IN  IF st.calls[i].source # "auto" THEN f.st
        ELSE [f.st EXCEPT !.autoRefreshRunning = FALSE,
                          !.lastAutoRefreshAtMs = IF f.returned THEN f.st.now ELSE @]

\* ipcMain.handle('settings:set'), lines 369-425
SettingsArgs ==
    [username : Users, savePassword : BOOLEAN, password : UserPws, autoRefreshEnabled : BOOLEAN]

\* a 'settings:set' that assigns the settings with the new user name before
\* it finds no password to save, which C40_UnchangedOnError has to tell
\* from settingsSet
settingsSetAssignFirst(st, args, e) ==
    LET previous == st.settings
        named    == setUsername(previous, args.username)
        next0    == IF previous.username # args.username
                    THEN setAutoRefreshEnabled(clearSavedPassword(named), FALSE)
                    ELSE named
        commit(next) ==
            LET assigned ==
                    [st EXCEPT !.settings = next,
                               !.unverified =
                                   \/ @
                                   \/ /\ args.savePassword /\ args.password # NoText
                                      /\ st.lastManual # [username |-> args.username,
                                                          password |-> args.password]]
                saved ==
                    [assigned EXCEPT !.disk = next,
                                     !.lastSet = IF args.savePassword THEN "save" ELSE "nosave"]
            IN  IF e.saveRaises THEN assigned
                ELSE startOrStopAutoRefresh(saved, e)
    IN  IF args.savePassword
        THEN IF ~e.canEncrypt THEN st
             ELSE IF args.password # NoText
             THEN IF \/ st.lastVerifiedCredentialsHash = NoHash
                     \/ st.lastVerifiedCredentialsHash # credentialsHash(args.username, args.password)
                  THEN st
                  ELSE commit(setAutoRefreshEnabled(
                                [next0 EXCEPT !.encryptedPasswordBase64 =
                                                  encryptAndStorePassword(args.password)],
                                args.autoRefreshEnabled))
             ELSE IF next0.encryptedPasswordBase64 = NoPassword
             THEN [st EXCEPT !.settings = next0]
             ELSE commit(setAutoRefreshEnabled(next0, args.autoRefreshEnabled))
        ELSE commit(setAutoRefreshEnabled(clearSavedPassword(next0), FALSE))

\* lines 380-425
settingsSet(st, args, e) ==
    LET previous == st.settings
        named    == setUsername(previous, args.username)
        next0    == IF previous.username # args.username
                    THEN setAutoRefreshEnabled(clearSavedPassword(named), FALSE)
                    ELSE named
        commit(next) ==
            LET assigned ==
                    [st EXCEPT !.settings = next,
                               !.unverified =
                                   \/ @
                                   \/ /\ args.savePassword /\ args.password # NoText
                                      /\ st.lastManual # [username |-> args.username,
                                                          password |-> args.password]]
                saved ==
                    [assigned EXCEPT !.disk = next,
                                     !.lastSet = IF args.savePassword THEN "save" ELSE "nosave"]
            IN  IF e.saveRaises THEN assigned
                ELSE startOrStopAutoRefresh(saved, e)
    IN  IF args.savePassword
        THEN IF ~e.canEncrypt THEN st
             ELSE IF args.password # NoText
             THEN IF \/ st.lastVerifiedCredentialsHash = NoHash
                     \/ st.lastVerifiedCredentialsHash # credentialsHash(args.username, args.password)
                  THEN st
                  ELSE commit(setAutoRefreshEnabled(
                                [next0 EXCEPT !.encryptedPasswordBase64 =
                                                  encryptAndStorePassword(args.password)],
                                args.autoRefreshEnabled))
             ELSE IF next0.encryptedPasswordBase64 = NoPassword THEN st
             ELSE commit(setAutoRefreshEnabled(next0, args.autoRefreshEnabled))
        ELSE commit(setAutoRefreshEnabled(clearSavedPassword(next0), FALSE))

Room == Len(m.calls) < MaxCalls

\* app.whenReady(): lines 248-256
AppReady ==
    /\ ~m.ready
    /\ \E e \in SyncEnvs :
          m' = startOrStopAutoRefresh([m EXCEPT !.ready = TRUE, !.settings = m.disk], e)
    /\ UNCHANGED <<run, ref, ics>>

\* ipcMain.handle('sync-trainex-ics'), lines 319-333
IpcSyncManual ==
    /\ m.ready /\ Room
    /\ \E c \in Logins, e \in StartEnvs : m' = StartSync(m, "manual", c.username, c.password, e)
    /\ UNCHANGED <<run, ref, ics>>

\* ipcMain.handle('sync-trainex-ics-saved'), lines 335-363
IpcSyncSaved ==
    /\ m.ready /\ Room
    /\ \E e \in SyncEnvs :
          m' = IF m.settings.username = NoText \/ m.settings.encryptedPasswordBase64 = NoPassword
               THEN m
               ELSE IF e.decryptFails THEN m
               ELSE StartSync(m, "saved", m.settings.username,
                              decryptStoredPassword(m.settings.encryptedPasswordBase64), e)
    /\ UNCHANGED <<run, ref, ics>>

\* the interval timer of line 104 fires
TimerTick ==
    /\ m.ready /\ m.autoRefreshTimer /\ Room
    /\ \E e \in SyncEnvs : m' = runAutoRefreshTick(m, e)
    /\ UNCHANGED <<run, ref, ics>>

\* a retrieval in flight ends and its caller resumes; a request the
\* validation refuses (ValidateStep) can only fail
SyncDone ==
    /\ \E i \in 1..Len(m.calls), outcome \in {"ok", "fail", "rejected"},
          text \in SyncTexts, post \in 0..2 :
          /\ (m.calls[i].username = NoText \/ m.calls[i].password = NoText) => outcome = "fail"
          /\ outcome = "rejected" => post = 0
          /\ outcome = "fail" => post < 2
          /\ (outcome # "ok" \/ post = 1) => text = TextA
          /\ m' = AfterSync(m, i, outcome, text, post)
    /\ UNCHANGED <<run, ref, ics>>

SettingsSet ==
    /\ m.ready /\ Room
    /\ \E args \in SettingsArgs, e \in SettingsEnvs : m' = settingsSet(m, args, e)
    /\ UNCHANGED <<run, ref, ics>>

AdvanceClock ==
    /\ m.advances < MaxAdvances
    /\ m' = [m EXCEPT !.now = @ + ClockStep, !.advances = @ + 1]
    /\ UNCHANGED <<run, ref, ics>>

MainInit ==
    /\ run = NoRun /\ ref = NoRun /\ ics = NoIcs
    /\ \E t \in StartTimes : m = [InitMain EXCEPT !.now = t]

MainNext ==
    \/ AppReady \/ IpcSyncManual \/ IpcSyncSaved \/ TimerTick
    \/ SyncDone \/ SettingsSet \/ AdvanceClock

MainSpec == MainInit /\ [][MainNext]_vars

\* C9 (single in-flight retrieval), as claimed: at most one call of
\* syncTrainexIcs is in flight at any time.
C9_SingleInFlight == Len(m.calls) <= 1


(***************************************************************************)
(* What runSyncWithCredentials passes to its logger and to sendStatus      *)
(* (index.ts, lines 156-216), made of the same kinds of data as LogData,   *)
(* plus "result": what syncTrainexIcs returned (error text, sizes).        *)
(***************************************************************************)
SyncLogMessages == {"sync:start", "sync:fail", "sync:wrote-debug-ics", "sync:ok"}

SyncLogData(message) ==
    CASE message = "sync:start"           -> {"date", "const"}
      [] message = "sync:fail"            -> {"result"}
      [] message = "sync:wrote-debug-ics" -> {"local", "result"}
      [] message = "sync:ok"              -> {"result"}

\* sendStatus: literals and, after a failure, the path of the log file
SyncStatusData == {"const", "local"}

Stamped(url, a) ==
    /\ url.umonat = Str(a.month)
    /\ url.ujahr = Str(a.year)
    /\ url.utag \in {Empty, Str(a.day)}

C12_RestampedCandidates ==
    \A i \in FetchIdx(run) : Stamped(run.trace[i].url, run.args)


(***************************************************************************)
(* The calendar decoder (src/src/renderer/src/lib/ics/parseIcs.ts)         *)
(* A text is a sequence of characters, a character a string of length 1.   *)
(***************************************************************************)
CR  == "\r"
LF  == "\n"
SP  == " "
TAB == "\t"

\* all sequences over `alphabet` of length 0..n
SeqsUpTo(alphabet, n) == UNION { [1..k -> alphabet] : k \in 0..n }

Drop(t, n) == SubSeq(t, n + 1, Len(t))

\* the concatenation of pieces[lo] .. pieces[hi]
RECURSIVE Flatten(_, _, _)
Flatten(pieces, lo, hi) ==
    IF lo > hi THEN <<>>
    ELSE IF lo = hi THEN pieces[lo]
    ELSE Flatten(pieces, lo, (lo + hi) \div 2) \o Flatten(pieces, ((lo + hi) \div 2) + 1, hi)

\* input.replace(/\r\n/g, '\n'): a CR right before an LF goes
ReplaceCrLf(t) ==
    Flatten([i \in 1..Len(t) |->
                IF t[i] = CR /\ i < Len(t) /\ t[i + 1] = LF THEN <<>> ELSE <<t[i]>>],
            1, Len(t))

\* .replace(/\r/g, '\n')
ReplaceCr(t) == [i \in 1..Len(t) |-> IF t[i] = CR THEN LF ELSE t[i]]

\* an unfolding that knows the space but not the tab, which
\* C20_UnfoldBeforeParse has to tell from RemoveFolds
RemoveFoldsSpaceOnly(t) ==
    Flatten([i \in 1..Len(t) |->
                IF \/ t[i] = LF /\ i < Len(t) /\ t[i + 1] = SP
                   \/ t[i] = SP /\ i > 1 /\ t[i - 1] = LF
                THEN <<>> ELSE <<t[i]>>],
            1, Len(t))

\* normalized.replace(/\n[ \t]/g, ''): an LF right before a space or a
\* tab goes, and so does the space or tab right after an LF
RemoveFolds(t) ==
    Flatten([i \in 1..Len(t) |->
                IF \/ t[i] = LF /\ i < Len(t) /\ t[i + 1] \in {SP, TAB}
                   \/ t[i] \in {SP, TAB} /\ i > 1 /\ t[i - 1] = LF
                THEN <<>> ELSE <<t[i]>>],
            1, Len(t))

unfoldIcsLines(input) == RemoveFolds(ReplaceCr(ReplaceCrLf(input)))

\* the pieces of t[lo..hi] between the separators /\r?\n/; the last piece
\* of one half continues in the first piece of the other
RECURSIVE SplitRange(_, _, _)
SplitRange(t, lo, hi) ==
    IF lo > hi THEN << <<>> >>
    ELSE IF lo = hi
    THEN IF t[lo] = LF THEN << <<>>, <<>> >>
         ELSE IF t[lo] = CR /\ lo < Len(t) /\ t[lo + 1] = LF THEN << <<>> >>
         ELSE << <<t[lo]>> >>
    ELSE LET left  == SplitRange(t, lo, (lo + hi) \div 2)
             right == SplitRange(t, ((lo + hi) \div 2) + 1, hi)
         IN  SubSeq(left, 1, Len(left) - 1)
                 \o << left[Len(left)] \o right[1] >>
                 \o Tail(right)

\* unfolded.split(/\r?\n/)
SplitLines(t) == SplitRange(t, 1, Len(t))

(***************************************************************************)
(* Unfolding a text, step by step: UnfoldSpec                              *)
(***************************************************************************)
MaxTextLen == 5
TextChars  == {CR, LF, SP, TAB, "F", "B"}

UnfoldInit ==
    /\ run = NoRun /\ ref = NoRun /\ m = NoMain
    /\ \E t \in SeqsUpTo(TextChars, MaxTextLen) :
          ics = [pc |-> "normalize", input |-> t, text |-> t, lines |-> <<>>]

\* line 285
NormalizeNewlines ==
    /\ ics.pc = "normalize"
    /\ ics' = [ics EXCEPT !.pc = "unfold", !.text = ReplaceCr(ReplaceCrLf(@))]
    /\ UNCHANGED <<run, ref, m>>

\* line 286
RemoveContinuations ==
    /\ ics.pc = "unfold"
    /\ ics' = [ics EXCEPT !.pc = "split", !.text = RemoveFolds(@)]
    /\ UNCHANGED <<run, ref, m>>

\* line 179
SplitUnfolded ==
    /\ ics.pc = "split"
    /\ ics' = [ics EXCEPT !.pc = "lines", !.lines = SplitLines(ics.text)]
    /\ UNCHANGED <<run, ref, m>>

UnfoldNext == NormalizeNewlines \/ RemoveContinuations \/ SplitUnfolded

UnfoldSpec == UnfoldInit /\ [][UnfoldNext]_vars

\* The physical lines of a text: what stands between line breaks, a line
\* break being CR LF, a lone LF or a lone CR.
RECURSIVE PhysicalFrom(_, _)
PhysicalFrom(t, piece) ==
    IF t = <<>> THEN <<piece>>
    ELSE IF t[1] = CR
    THEN <<piece>> \o PhysicalFrom(Drop(t, IF Len(t) >= 2 /\ t[2] = LF THEN 2 ELSE 1), <<>>)
    ELSE IF t[1] = LF THEN <<piece>> \o PhysicalFrom(Tail(t), <<>>)
    ELSE PhysicalFrom(Tail(t), Append(piece, t[1]))

PhysicalLines(t) == PhysicalFrom(t, <<>>)

\* The logical lines of a sequence of physical lines: a physical line that
\* begins with a space or a tab continues the logical line before it,
\* without that first character.
RECURSIVE LogicalLines(_)
LogicalLines(ls) ==
    IF Len(ls) <= 1 THEN ls
    ELSE LET before == LogicalLines(SubSeq(ls, 1, Len(ls) - 1))
             last   == ls[Len(ls)]
         IN  IF last # <<>> /\ last[1] \in {SP, TAB}
             THEN [before EXCEPT ![Len(before)] = @ \o Tail(last)]
             ELSE Append(before, last)

\* C20 (unfolding before parsing): the lines the parser loop goes through
\* are the logical lines of the input, for CR LF, LF and CR line breaks
\* alike.
C20_UnfoldBeforeParse ==
    ics.pc = "lines" => ics.lines = LogicalLines(PhysicalLines(ics.input))

\* C20 witness: "F", line break, " B" has become the one line "FB".
C20_Witness ==
    /\ ics.pc = "lines"
    /\ ics.input = <<"F", LF, SP, "B">>
    /\ ics.lines = << <<"F", "B">> >>


(***************************************************************************)
(* makeId (lines 337-344)                                                  *)
(***************************************************************************)
\* base.charCodeAt(i), for the characters that occur in the model's texts
charCodeAt(c) ==
    CASE c = "0" -> 48
      [] c = "1" -> 49
      [] c = "2" -> 50
      [] c = "3" -> 51
      [] c = "4" -> 52
      [] c = "5" -> 53
      [] c = "6" -> 54
      [] c = "7" -> 55
      [] c = "8" -> 56
      [] c = "9" -> 57
      [] c = "A" -> 65
      [] c = "B" -> 66
      [] c = "R" -> 82
      [] c = "a" -> 97
      [] c = "b" -> 98
      [] c = "P" -> 80
      [] c = "T" -> 84
      [] c = "H" -> 72
      [] c = "M" -> 77
      [] c = "S" -> 83
      [] c = "D" -> 68
      [] c = "Z" -> 90
      [] c = "|" -> 124
      [] c = "-" -> 45
      [] c = ":" -> 58
      [] c = "." -> 46
      [] c = " " -> 32
      [] c = "n" -> 110
      [] c = "N" -> 78
      [] c = "," -> 44
      [] c = ";" -> 59
      [] c = "\\" -> 92
      [] c = "E" -> 69
      [] c = "+" -> 43
      [] c = LF -> 10
      [] c = TAB -> 9
      [] c = CR -> 13

\* A 32-bit unsigned number is kept as its two 16-bit halves <<high, low>>.
\* (h * 31 + code) >>> 0
HashStep(h, code) ==
    LET low  == h[2] * 31 + code
        high == h[1] * 31 + (low \div 65536)
    IN  <<high % 65536, low % 65536>>

RECURSIVE HashFrom(_, _)
HashFrom(h, t) ==
    IF t = <<>> THEN h
    ELSE CHOOSE r \in {HashFrom(next, Tail(t)) : next \in {HashStep(h, charCodeAt(t[1]))}} : TRUE

HexDigit(n) == SubSeq(<<"0", "1", "2", "3", "4", "5", "6", "7", "8", "9", "a", "b", "c", "d", "e", "f">>, n + 1, n + 1)

\* the hexadecimal digits of n, at least `width` of them
RECURSIVE HexOf(_, _)
HexOf(n, width) ==
    IF n < 16 /\ width <= 1 THEN HexDigit(n)
    ELSE HexOf(n \div 16, width - 1) \o HexDigit(n % 16)

\* h.toString(16)
ToHex(h) == IF h[1] = 0 THEN HexOf(h[2], 1) ELSE HexOf(h[1], 1) \o HexOf(h[2], 4)

makeId(summary, startIso, endIso, location) ==
    LET base == summary \o <<"|">> \o startIso \o <<"|">> \o endIso \o <<"|">> \o location
    IN  <<"e", "v", "t", "_">> \o ToHex(HashFrom(<<0, 0>>, base))

(***************************************************************************)
(* Fingerprinting two tuples: IdSpec                                       *)
(***************************************************************************)
IdSummaries == { <<"A", "a">>, <<"B", "B">>, <<"A">> }
IdTimes     == { <<"1">>, <<"2">> }
IdLocations == { <<>>, <<"R">>, <<"A", "a">> }
IdTuples    == [summary : IdSummaries, start : IdTimes, end : IdTimes, location : IdLocations]
NoId        == <<>>

IdInit ==
    /\ run = NoRun /\ ref = NoRun /\ m = NoMain
    /\ \E a \in IdTuples, b \in IdTuples :
          ics = [pc |-> "first", a |-> a, b |-> b, idA |-> NoId, idB |-> NoId]

MakeFirstId ==
    /\ ics.pc = "first"
    /\ ics' = [ics EXCEPT !.pc = "second",
                          !.idA = makeId(ics.a.summary, ics.a.start, ics.a.end, ics.a.location)]
    /\ UNCHANGED <<run, ref, m>>

MakeSecondId ==
    /\ ics.pc = "second"
    /\ ics' = [ics EXCEPT !.pc = "made",
                          !.idB = makeId(ics.b.summary, ics.b.start, ics.b.end, ics.b.location)]
    /\ UNCHANGED <<run, ref, m>>

IdNext == MakeFirstId \/ MakeSecondId

IdSpec == IdInit /\ [][IdNext]_vars

\* the fields in which two tuples differ
Differing(a, b) == { f \in {"summary", "start", "end", "location"} : a[f] # b[f] }

Digits == {"0", "1", "2", "3", "4", "5", "6", "7", "8", "9"}

\* /^\d+$/ on a slice
AllDigits(t) == \A i \in 1..Len(t) : t[i] \in Digits

\* Number(<digits>)
RECURSIVE Number(_)
Number(t) ==
    IF t = <<>> THEN 0
    ELSE Number(SubSeq(t, 1, Len(t) - 1)) * 10 + (charCodeAt(t[Len(t)]) - charCodeAt("0"))

\* n in decimal, at least `width` digits
RECURSIVE DecOf(_, _)
DecOf(n, width) ==
    IF n < 10 /\ width <= 1 THEN HexDigit(n)
    ELSE DecOf(n \div 10, width - 1) \o HexDigit(n % 10)

\* day number of a date of the proleptic Gregorian calendar (month 1..12)
DaysFromCivil(y, mo, d) ==
    LET yy  == IF mo <= 2 THEN y - 1 ELSE y
        era == yy \div 400
        yoe == yy - era * 400
        mp  == IF mo > 2 THEN mo - 3 ELSE mo + 9
        doy == ((153 * mp + 2) \div 5) + d - 1
        doe == yoe * 365 + (yoe \div 4) - (yoe \div 100) + doy
    IN  era * 146097 + doe - 719468

\* ... and the date of a day number
CivilFromDays(z) ==
    LET zz  == z + 719468
        era == zz \div 146097
        doe == zz - era * 146097
        yoe == (doe - (doe \div 1460) + (doe \div 36524) - (doe \div 146096)) \div 365
        doy == doe - (365 * yoe + (yoe \div 4) - (yoe \div 100))
        mp  == (5 * doy + 2) \div 153
        d   == doy - ((153 * mp + 2) \div 5) + 1
        mo  == IF mp < 10 THEN mp + 3 ELSE mp - 9
    IN  [year |-> yoe + era * 400 + (IF mo <= 2 THEN 1 ELSE 0), month |-> mo, day |-> d]

\* MakeDay / MakeTime of the Date constructor and of Date.UTC: a two-digit
\* year counts from 1900, and fields out of range carry over
MakeInstant(y, month0, d, hh, mm, ss) ==
    LET yr  == IF y >= 0 /\ y <= 99 THEN 1900 + y ELSE y
        day == DaysFromCivil(yr + (month0 \div 12), (month0 % 12) + 1, 1) + d - 1
        sec == hh * 3600 + mm * 60 + ss
    IN  <<day + (sec \div 86400), sec % 86400>>

\* the instant `minutes` later
Later(t, minutes) ==
    LET sec == t[2] + minutes * 60
    IN  <<t[1] + (sec \div 86400), sec % 86400>>

\* Date.UTC(y, m, d, hh, mm, ss)
DateUTC(y, month0, d, hh, mm, ss) == MakeInstant(y, month0, d, hh, mm, ss)

\* new Date(y, m, d, hh, mm, ss) in the zone `tz` minutes east of UTC
DateLocal(y, month0, d, hh, mm, ss, tz) == Later(MakeInstant(y, month0, d, hh, mm, ss), 0 - tz)

\* date.toISOString()
toISOString(t) ==
    LET c == CivilFromDays(t[1])
        year == IF c.year >= 0 /\ c.year <= 9999 THEN DecOf(c.year, 4)
                ELSE IF c.year < 0 THEN <<"-">> \o DecOf(0 - c.year, 6)
                ELSE <<"+">> \o DecOf(c.year, 6)
    IN  year \o <<"-">> \o DecOf(c.month, 2) \o <<"-">> \o DecOf(c.day, 2) \o <<"T">>
            \o DecOf(t[2] \div 3600, 2) \o <<":">> \o DecOf((t[2] \div 60) % 60, 2)
            \o <<":">> \o DecOf(t[2] % 60, 2) \o <<".", "0", "0", "0", "Z">>

\* lines 309-310
EndsWithZ(dt) == dt # <<>> /\ dt[Len(dt)] = "Z"
RawOf(dt)     == IF EndsWithZ(dt) THEN SubSeq(dt, 1, Len(dt) - 1) ELSE dt

\* /^\d{8}$/ and /^\d{8}T\d{6}$/
IsDateOnly(raw) == Len(raw) = 8 /\ AllDigits(raw)
IsDateTime(raw) ==
    /\ Len(raw) = 15 /\ raw[9] = "T"
    /\ AllDigits(SubSeq(raw, 1, 8)) /\ AllDigits(SubSeq(raw, 10, 15))

icsDateToIso(dt, tz) ==
    LET zulu == EndsWithZ(dt)
        raw  == RawOf(dt)
        y    == Number(SubSeq(raw, 1, 4))
        mo   == Number(SubSeq(raw, 5, 6))
        d    == Number(SubSeq(raw, 7, 8))
    IN  IF IsDateOnly(raw) THEN toISOString(DateLocal(y, mo - 1, d, 0, 0, 0, tz))
        ELSE IF IsDateTime(raw)
        THEN LET hh == Number(SubSeq(raw, 10, 11))
                 mm == Number(SubSeq(raw, 12, 13))
                 ss == Number(SubSeq(raw, 14, 15))
             IN  toISOString(IF zulu THEN DateUTC(y, mo - 1, d, hh, mm, ss)
                             ELSE DateLocal(y, mo - 1, d, hh, mm, ss, tz))
        ELSE dt


(***************************************************************************)
(* Decoding one timestamp: DateSpec                                        *)
(***************************************************************************)
Zones == {-300, 0, 60}

DateYears == { <<"2", "0", "2", "6">>, <<"0", "0", "5", "0">>, <<"9", "9", "9", "9">> }
DateDays  == { <<"0", "1", "0", "5">>, <<"1", "2", "3", "1">> }
DateTimes == { <<"0", "8", "1", "5", "0", "0">>, <<"2", "3", "5", "9", "5", "9">> }

\* calendar dates, and date-times with and without the UTC marker, each
\* also with a marker too many
WellFormed ==
    LET dates == { y \o d : y \in DateYears, d \in DateDays }
        local == { d \o <<"T">> \o t : d \in dates, t \in DateTimes }
    IN  dates \cup local \cup { v \o <<"Z">> : v \in dates \cup local }
              \cup { v \o <<"Z", "Z">> : v \in local }

\* values of other shapes
OtherShapes ==
    { <<>>, <<"2", "0", "2", "6", "-", "0", "1", "-", "0", "5">>, <<"2", "0", "2", "6", "0", "1", "0", "5", "T", "0", "8", "1", "5">>, <<"2", "0", "2", "6", "0", "1", "0">>, <<"Z">> }

DateInputs == WellFormed \cup OtherShapes

DateInit ==
    /\ run = NoRun /\ ref = NoRun /\ m = NoMain
    /\ \E dt \in DateInputs, tz \in Zones :
          ics = [pc |-> "decode", dt |-> dt, tz |-> tz, out |-> <<>>]

DecodeTimestamp ==
    /\ ics.pc = "decode"
    /\ ics' = [ics EXCEPT !.pc = "decoded", !.out = icsDateToIso(ics.dt, ics.tz)]
    /\ UNCHANGED <<run, ref, m>>

DateNext == DecodeTimestamp

DateSpec == DateInit /\ [][DateNext]_vars

\* The shape of a value: an 8-digit date, YYYYMMDDThhmmss with a trailing
\* Z, the same without, or anything else.
ShapeOf(dt) ==
    IF Len(dt) = 8 /\ AllDigits(dt) THEN "date"
    ELSE IF Len(dt) = 15 /\ IsDateTime(dt) THEN "local"
    ELSE IF Len(dt) = 16 /\ dt[16] = "Z" /\ IsDateTime(SubSeq(dt, 1, 15)) THEN "utc"
    ELSE "other"

\* The instant that has the date fields of `dt` (and its time fields when
\* it has them) on the clock of the zone `tz` minutes east of UTC.
InstantWithFields(dt, tz) ==
    LET day == DaysFromCivil(Number(SubSeq(dt, 1, 4)), Number(SubSeq(dt, 5, 6)),
                             Number(SubSeq(dt, 7, 8)))
        sec == IF Len(dt) >= 15
               THEN Number(SubSeq(dt, 10, 11)) * 3600 + Number(SubSeq(dt, 12, 13)) * 60
                        + Number(SubSeq(dt, 14, 15))
               ELSE 0
    IN  Later(<<day, sec>>, 0 - tz)

\* YYYYMMDDThhmmssZ written as YYYY-MM-DDThh:mm:ss.000Z
Dashed(dt) ==
    SubSeq(dt, 1, 4) \o <<"-">> \o SubSeq(dt, 5, 6) \o <<"-">> \o SubSeq(dt, 7, 9)
        \o SubSeq(dt, 10, 11) \o <<":">> \o SubSeq(dt, 12, 13) \o <<":">> \o SubSeq(dt, 14, 15)
        \o <<".", "0", "0", "0", "Z">>

\* C19 (timestamp decoding), as claimed: a date becomes local midnight of
\* that date, a date-time with Z the UTC instant with exactly those fields,
\* a date-time without Z that time on the local clock, and a value of any
\* other shape comes back unchanged.
C19_TimestampDecoding ==
    ics.pc = "decoded" =>
        CASE ShapeOf(ics.dt) = "date"  -> ics.out = toISOString(InstantWithFields(ics.dt, ics.tz))
          [] ShapeOf(ics.dt) = "local" -> ics.out = toISOString(InstantWithFields(ics.dt, ics.tz))
          [] ShapeOf(ics.dt) = "utc"   -> ics.out = Dashed(ics.dt)
          [] OTHER                     -> ics.out = ics.dt


(***************************************************************************)
(* parseIcsToEvents (lines 177-256) and its helpers                        *)
(***************************************************************************)
\* a property that was never assigned
Undefined == <<"undefined">>

WhiteSpace == {SP, TAB, LF, CR}

\* String.prototype.trim
RECURSIVE TrimStart(_)
TrimStart(t) == IF t # <<>> /\ t[1] \in WhiteSpace THEN TrimStart(Tail(t)) ELSE t

RECURSIVE TrimEnd(_)
TrimEnd(t) ==
    IF t # <<>> /\ t[Len(t)] \in WhiteSpace THEN TrimEnd(SubSeq(t, 1, Len(t) - 1)) ELSE t

Trim(t) == TrimEnd(TrimStart(t))

\* value.replace(/\\x/g, y) for x among `seconds`
RECURSIVE ReplaceEscape(_, _, _)
ReplaceEscape(t, seconds, y) ==
    IF t = <<>> THEN <<>>
    ELSE IF Len(t) >= 2 /\ t[1] = "\\" /\ t[2] \in seconds
    THEN <<y>> \o ReplaceEscape(Drop(t, 2), seconds, y)
    ELSE <<t[1]>> \o ReplaceEscape(Tail(t), seconds, y)

\* lines 300-306
unescapeIcsText(value) ==
    ReplaceEscape(ReplaceEscape(ReplaceEscape(ReplaceEscape(value,
        {"n", "N"}, LF), {","}, ","), {";"}, ";"), {"\\"}, "\\")

\* line.indexOf(c), 0 when c does not occur
IndexOf(t, c) ==
    IF \E i \in 1..Len(t) : t[i] = c
    THEN CHOOSE i \in 1..Len(t) : t[i] = c /\ \A j \in 1..(i - 1) : t[j] # c
    ELSE 0

\* the part of t before the first c (all of t when there is none)
Before(t, c) == IF IndexOf(t, c) = 0 THEN t ELSE SubSeq(t, 1, IndexOf(t, c) - 1)

\* lines 289-298; key Undefined stands for null
splitIcsLine(line) ==
    LET idx == IndexOf(line, ":")
    IN  IF idx = 0 THEN [key |-> Undefined, value |-> <<>>]
        ELSE [key   |-> Trim(Before(SubSeq(line, 1, idx - 1), ";")),
              value |-> unescapeIcsText(Drop(line, idx))]

\* value.split(',').map((s) => s.trim()).filter(Boolean)
RECURSIVE SplitCategories(_)
SplitCategories(t) ==
    LET first == Trim(Before(t, ","))
        rest  == IF IndexOf(t, ",") = 0 THEN <<>> ELSE SplitCategories(Drop(t, IndexOf(t, ",")))
    IN  IF first = <<>> THEN rest ELSE <<first>> \o rest

\* String.prototype.toUpperCase, for the letters of the model's texts
UpperChar(c) ==
    CASE c = "p" -> "P" [] c = "t" -> "T" [] c = "h" -> "H" [] c = "m" -> "M"
      [] c = "s" -> "S" [] c = "d" -> "D" [] c = "a" -> "A" [] c = "b" -> "B"
      [] OTHER -> c

toUpperCase(t) == [i \in 1..Len(t) |-> UpperChar(t[i])]

\* the longest run of digits at the head of t
RECURSIVE LeadingDigits(_)
LeadingDigits(t) ==
    IF t # <<>> /\ t[1] \in Digits THEN <<t[1]>> \o LeadingDigits(Tail(t)) ELSE <<>>

\* (?:(\d+)U)? at the head of t: the number and what follows it
TakeUnit(t, unit) ==
    LET ds == LeadingDigits(t)
    IN  IF ds # <<>> /\ Len(t) > Len(ds) /\ t[Len(ds) + 1] = unit
        THEN [n |-> Number(ds), rest |-> Drop(t, Len(ds) + 1)]
        ELSE [n |-> 0, rest |-> t]

\* No duration: parseIcsDurationToMs returns null
NoDuration == <<-1, 0>>

\* lines 267-282.  A duration is <<days, seconds>> with seconds below one
\* day; the code's number of milliseconds is 1000 times its length.
parseIcsDurationToMs(duration) ==
    LET d  == toUpperCase(Trim(duration))
        dd == TakeUnit(IF d = <<>> THEN <<>> ELSE Tail(d), "D")
        hasT == dd.rest # <<>> /\ dd.rest[1] = "T"
        hh == TakeUnit(IF hasT THEN Tail(dd.rest) ELSE dd.rest, "H")
        mm == TakeUnit(hh.rest, "M")
        ss == TakeUnit(mm.rest, "S")
        seconds == (hh.n * 60 + mm.n) * 60 + ss.n
    IN  IF d = <<>> \/ d[1] # "P" THEN NoDuration
        ELSE IF ~hasT /\ dd.rest # <<>> THEN NoDuration
        ELSE IF ss.rest # <<>> THEN NoDuration
        ELSE <<dd.n + (seconds \div 86400), seconds % 86400>>

\* new Date(startIso).getTime(): the instant of a string in the format of
\* toISOString (four-digit year) or of a year alone ("2026" is the first
\* instant of that year in UTC), NaN for the other strings of the model
NaN == <<-1, -1>>

ParseDate(t) ==
    IF Len(t) = 4 /\ AllDigits(t) THEN <<DaysFromCivil(Number(t), 1, 1), 0>>
    ELSE IF
       /\ Len(t) = 24
       /\ <<t[5], t[8], t[11], t[14], t[17], t[20]>> = <<"-", "-", "T", ":", ":", ".">>
       /\ SubSeq(t, 21, 24) = <<"0", "0", "0", "Z">>
       /\ AllDigits(SubSeq(t, 1, 4) \o SubSeq(t, 6, 7) \o SubSeq(t, 9, 10)
                    \o SubSeq(t, 12, 13) \o SubSeq(t, 15, 16) \o SubSeq(t, 18, 19))
    THEN <<DaysFromCivil(Number(SubSeq(t, 1, 4)), Number(SubSeq(t, 6, 7)), Number(SubSeq(t, 9, 10))),
           Number(SubSeq(t, 12, 13)) * 3600 + Number(SubSeq(t, 15, 16)) * 60
               + Number(SubSeq(t, 18, 19))>>
    ELSE NaN

\* the last day a Date can hold: 100,000,000 days after the epoch
MaxDateDay == 100000000

\* an instant beyond it is an invalid Date, whose toISOString raises
ValidDate(t) == t[1] < MaxDateDay \/ (t[1] = MaxDateDay /\ t[2] = 0)

Raises == <<"RangeError">>

\* start.getTime() + ms
LaterBy(start, ms) ==
    <<start[1] + ms[1] + ((start[2] + ms[2]) \div 86400), (start[2] + ms[2]) % 86400>>

\* new Date(time).toISOString(), Raises when it raises
IsoOrRaises(date) == IF ValidDate(date) THEN toISOString(date) ELSE Raises

\* lines 261-264, Undefined for null
EndAfter(ms, start) ==
    IF ms = NoDuration THEN Undefined
    ELSE IF start = NaN THEN Undefined
    ELSE IsoOrRaises(LaterBy(start, ms))

\* lines 258-265
computeEndFromDuration(startIso, duration) ==
    IF duration = Undefined \/ duration = <<>> THEN Undefined
    ELSE EndAfter(parseIcsDurationToMs(duration), ParseDate(startIso))

\* String.prototype.localeCompare under the default collation: characters
\* are compared by their place in the collation order first (punctuation,
\* then digits, then letters without regard to case), and case decides
\* only between strings equal so far, lower case first.
LowerCase == <<"a", "b", "d", "e", "h", "m", "n", "p", "r", "s", "t", "z">>
UpperCase == <<"A", "B", "D", "E", "H", "M", "N", "P", "R", "S", "T", "Z">>
Punctuation == <<SP, "-", ",", ";", ":", ".", "\\", "+", "|">>

PlaceIn(seq, c) == CHOOSE i \in 1..Len(seq) : seq[i] = c

Primary(c) ==
    IF \E i \in 1..Len(Punctuation) : Punctuation[i] = c THEN PlaceIn(Punctuation, c)
    ELSE IF c \in Digits THEN 20 + Number(<<c>>)
    ELSE IF \E i \in 1..Len(LowerCase) : LowerCase[i] = c THEN 40 + PlaceIn(LowerCase, c)
    ELSE IF \E i \in 1..Len(UpperCase) : UpperCase[i] = c THEN 40 + PlaceIn(UpperCase, c)
    ELSE 0

Tertiary(c) == IF \E i \in 1..Len(UpperCase) : UpperCase[i] = c THEN 1 ELSE 0

\* -1, 0 or 1 as the keys a come before, with or after the keys b
RECURSIVE CompareKeys(_, _)
CompareKeys(a, b) ==
    IF a = <<>> /\ b = <<>> THEN 0
    ELSE IF a = <<>> THEN -1
    ELSE IF b = <<>> THEN 1
    ELSE IF a[1] < b[1] THEN -1
    ELSE IF a[1] > b[1] THEN 1
    ELSE CompareKeys(Tail(a), Tail(b))

PrimaryKeys(t) == [i \in 1..Len(t) |-> Primary(t[i])]
TertiaryKeys(t) == [i \in 1..Len(t) |-> Tertiary(t[i])]

localeCompare(a, b) ==
    IF CompareKeys(PrimaryKeys(a), PrimaryKeys(b)) # 0
    THEN CompareKeys(PrimaryKeys(a), PrimaryKeys(b))
    ELSE CompareKeys(TertiaryKeys(a), TertiaryKeys(b))

\* Array.prototype.sort with the comparator of line 254 (the sort is stable)
RECURSIVE InsertByStart(_, _)
InsertByStart(sorted, ev) ==
    IF sorted = <<>> THEN <<ev>>
    ELSE IF localeCompare(sorted[1].start, ev.start) <= 0
    THEN <<sorted[1]>> \o InsertByStart(Tail(sorted), ev)
    ELSE <<ev>> \o sorted

RECURSIVE SortByStart(_)
SortByStart(events) ==
    IF events = <<>> THEN <<>>
    ELSE InsertByStart(SortByStart(SubSeq(events, 1, Len(events) - 1)), events[Len(events)])

(***************************************************************************)
(* One call of parseIcsToEvents on a calendar text                         *)
(***************************************************************************)
BeginLine == <<"B", "E", "G", "I", "N", ":", "V", "E", "V", "E", "N", "T">>
EndLine == <<"E", "N", "D", ":", "V", "E", "V", "E", "N", "T">>
KeySummary == <<"S", "U", "M", "M", "A", "R", "Y">>
KeyDescription == <<"D", "E", "S", "C", "R", "I", "P", "T", "I", "O", "N">>
KeyLocation == <<"L", "O", "C", "A", "T", "I", "O", "N">>
KeyCategories == <<"C", "A", "T", "E", "G", "O", "R", "I", "E", "S">>
KeyStart == <<"D", "T", "S", "T", "A", "R", "T">>
KeyEnd == <<"D", "T", "E", "N", "D">>
KeyDuration == <<"D", "U", "R", "A", "T", "I", "O", "N">>

\* The calendar texts of the model are written from at most MaxBlocks
\* blocks; a block says which property lines it holds and with which value
\* (Undefined: no such line), whether its END line is there, and whether
\* other lines surround its properties.
MaxBlocks == 2

StartZulu == <<"2", "0", "2", "6", "0", "1", "0", "5", "T", "0", "8", "0", "0", "0", "0", "Z">>
StartLocal == <<"2", "0", "2", "6", "0", "1", "0", "5", "T", "0", "8", "3", "0", "0", "0">>
EndZulu == <<"2", "0", "2", "6", "0", "1", "0", "5", "T", "1", "0", "0", "0", "0", "0", "Z">>
NinetyMinutes == <<"P", "T", "1", "H", "3", "0", "M">>
TooLong == <<"P", "9", "9", "9", "9", "9", "9", "9", "9", "D">>
BareP == <<"P">>
BarePT == <<"p", "t">>
NoPattern == <<"1", "H">>
YearOnly == <<"2", "0", "2", "6">>

SummaryValues == {Undefined, <<>>, <<"A", "a">>, <<"B", "B">>}
StartValues == {Undefined, StartZulu, StartLocal, YearOnly, <<"a">>, <<"B">>}
EndValues == {Undefined, EndZulu}
DurationValues == {Undefined, NinetyMinutes, TooLong, BareP, BarePT, NoPattern}
LocationValues == {Undefined, <<"R">>, <<SP, "R">>}
DescriptionValues == {Undefined, <<"D">>}

PlainBlock ==
    [summary |-> <<"A", "a">>, start |-> StartZulu, end |-> Undefined,
     duration |-> Undefined, location |-> Undefined, description |-> Undefined,
     closed |-> TRUE, noise |-> FALSE]

AllBlocks ==
    [summary : SummaryValues, start : StartValues, end : EndValues,
     duration : DurationValues, location : LocationValues,
     description : DescriptionValues, closed : BOOLEAN, noise : BOOLEAN]

\* the blocks that differ from the plain one in at most k respects
Blocks(k) ==
    {b \in AllBlocks :
        Cardinality({f \in DOMAIN PlainBlock : b[f] # PlainBlock[f]}) <= k}

\* the first block of a text differs from the plain one in at most
\* MaxDeviations respects, each later block in at most one
MaxDeviations == 2

Inputs ==
    {<<>>} \cup
    {<<first>> \o rest : first \in Blocks(MaxDeviations),
                         rest \in UNION {[1..n -> Blocks(1)] : n \in 0..(MaxBlocks - 1)}}

PropertyLine(key, value) == IF value = Undefined THEN <<>> ELSE <<key \o <<":">> \o value>>

\* a SUMMARY line, folded after its third character in a block with noise
SummaryLines(b) ==
    IF b.summary = Undefined THEN <<>>
    ELSE IF b.noise
    THEN <<SubSeq(KeySummary, 1, 3), <<TAB>> \o Drop(KeySummary, 3) \o <<":">> \o b.summary>>
    ELSE <<KeySummary \o <<":">> \o b.summary>>

BlockLines(b) ==
    (IF b.noise THEN <<KeySummary \o <<":", "B", "B">>>> ELSE <<>>)
    \o <<BeginLine>>
    \o (IF b.noise THEN <<<<"X", "Y", "Z">>, <<>>, KeyCategories \o <<":", "A", ",", " ", ",", "B">>>> ELSE <<>>)
    \o SummaryLines(b)
    \o PropertyLine(KeyStart, b.start)
    \o PropertyLine(KeyEnd, b.end)
    \o PropertyLine(KeyDuration, b.duration)
    \o PropertyLine(KeyLocation, b.location)
    \o PropertyLine(KeyDescription, b.description)
    \o (IF b.closed THEN <<EndLine>> ELSE <<>>)

RECURSIVE JoinLines(_)
JoinLines(lines) ==
    IF lines = <<>> THEN <<>> ELSE lines[1] \o <<CR, LF>> \o JoinLines(Tail(lines))

RECURSIVE TextOf(_)
TextOf(blocks) ==
    IF blocks = <<>> THEN <<>> ELSE JoinLines(BlockLines(blocks[1])) \o TextOf(Tail(blocks))

NoCurrent == <<>>

EmptyCurrent ==
    [summary |-> Undefined, description |-> Undefined, location |-> Undefined,
     categories |-> Undefined, start |-> Undefined, end |-> Undefined,
     duration |-> Undefined]

ParseInit ==
    /\ run = NoRun /\ ref = NoRun /\ m = NoMain
    /\ \E blocks \in Inputs : \E tz \in Zones :
          ics = [pc |-> "unfold", blocks |-> blocks, tz |-> tz,
                 icsText |-> TextOf(blocks), lines |-> <<>>, i |-> 1,
                 inEvent |-> FALSE, current |-> NoCurrent, events |-> <<>>]

\* lines 178-179
UnfoldAndSplit ==
    /\ ics.pc = "unfold"
    /\ ics' = [ics EXCEPT !.pc = "loop",
                          !.lines = SplitLines(unfoldIcsLines(ics.icsText))]
    /\ UNCHANGED <<run, ref, m>>

AtLine == ics.pc = "loop" /\ ics.i <= Len(ics.lines)

line == Trim(ics.lines[ics.i])

\* a ?? ''
OrEmpty(x) == IF x = Undefined THEN <<>> ELSE x

\* a?.trim() || undefined
TrimmedOrUndefined(x) ==
    IF x = Undefined \/ Trim(x) = <<>> THEN Undefined ELSE Trim(x)

\* lines 187, 219, 222: the lines the loop passes over
SkipLine ==
    /\ AtLine
    /\ line \notin {BeginLine, EndLine}
    /\ \/ line = <<>>
       \/ ~ics.inEvent
       \/ ics.current = NoCurrent
       \/ splitIcsLine(line).key \in {Undefined, <<>>}
    /\ ics' = [ics EXCEPT !.i = @ + 1]
    /\ UNCHANGED <<run, ref, m>>

\* lines 189-193
BeginEvent ==
    /\ AtLine
    /\ line = BeginLine
    /\ ics' = [ics EXCEPT !.i = @ + 1, !.inEvent = TRUE, !.current = <<EmptyCurrent>>]
    /\ UNCHANGED <<run, ref, m>>

\* lines 202-211
NewEvent(summary, start, computedEnd, current) ==
    [id          |-> makeId(summary, start, computedEnd, OrEmpty(current.location)),
     summary     |-> summary,
     start       |-> start,
     end         |-> computedEnd,
     location    |-> TrimmedOrUndefined(current.location),
     description |-> TrimmedOrUndefined(current.description),
     categories  |-> current.categories]

\* line 201 and what follows it, fromDuration being what
\* computeEndFromDuration gave
EventEnding(summary, start, fromDuration, current) ==
    IF fromDuration = Raises THEN [raised |-> TRUE, events |-> <<>>]
    ELSE [raised |-> FALSE,
          events |-> <<NewEvent(summary, start,
                                IF fromDuration # Undefined THEN fromDuration ELSE start,
                                current)>>]

\* lines 200-212
EventFrom(summary, start, end, current) ==
    IF summary = <<>> \/ start = <<>> THEN [raised |-> FALSE, events |-> <<>>]
    ELSE IF end # <<>>
    THEN [raised |-> FALSE, events |-> <<NewEvent(summary, start, end, current)>>]
    ELSE EventEnding(summary, start, computeEndFromDuration(start, current.duration), current)

\* lines 196-212: the events the current block adds, and whether computing
\* the end of its event raises
EventOf(current) ==
    EventFrom(Trim(OrEmpty(current.summary)), Trim(OrEmpty(current.start)),
              Trim(OrEmpty(current.end)), current)

\* lines 194-217
EndEvent ==
    /\ AtLine
    /\ line = EndLine
    /\ LET made == IF ics.inEvent /\ ics.current # NoCurrent
                   THEN EventOf(ics.current[1])
                   ELSE [raised |-> FALSE, events |-> <<>>]
       IN  IF made.raised
           THEN ics' = [ics EXCEPT !.pc = "raised"]
           ELSE ics' = [ics EXCEPT !.i = @ + 1, !.inEvent = FALSE,
                                   !.current = NoCurrent,
                                   !.events = @ \o made.events]
    /\ UNCHANGED <<run, ref, m>>

\* lines 224-251
Assign(current, key, value, tz) ==
    CASE key = KeySummary     -> [current EXCEPT !.summary = value]
      [] key = KeyDescription -> [current EXCEPT !.description = value]
      [] key = KeyLocation    -> [current EXCEPT !.location = value]
      [] key = KeyCategories  -> [current EXCEPT !.categories = SplitCategories(value)]
      [] key = KeyStart       -> [current EXCEPT !.start = icsDateToIso(value, tz)]
      [] key = KeyEnd         -> [current EXCEPT !.end = icsDateToIso(value, tz)]
      [] key = KeyDuration    -> [current EXCEPT !.duration = value]
      [] OTHER                -> current

\* lines 221-251
ReadProperty ==
    /\ AtLine
    /\ line \notin {<<>>, BeginLine, EndLine}
    /\ ics.inEvent
    /\ ics.current # NoCurrent
    /\ splitIcsLine(line).key \notin {Undefined, <<>>}
    /\ ics' = [ics EXCEPT !.i = @ + 1,
                          !.current = <<Assign(ics.current[1], splitIcsLine(line).key,
                                               splitIcsLine(line).value, ics.tz)>>]
    /\ UNCHANGED <<run, ref, m>>

\* lines 254-255
SortAndReturn ==
    /\ ics.pc = "loop"
    /\ ics.i > Len(ics.lines)
    /\ ics' = [ics EXCEPT !.pc = "returned", !.events = SortByStart(@)]
    /\ UNCHANGED <<run, ref, m>>

ParseNext ==
    \/ UnfoldAndSplit
    \/ SkipLine
    \/ BeginEvent
    \/ ReadProperty
    \/ EndEvent
    \/ SortAndReturn

ParseSpec == ParseInit /\ [][ParseNext]_vars


(***************************************************************************)
(* Properties of parseIcsToEvents                                          *)
(***************************************************************************)
\* the call is over: it returned its list or raised
Done == ics.pc \in {"returned", "raised"}

\* a block that is closed and has a summary and a start that are not empty
\* after trimming
BlockEmits(b) ==
    /\ b.closed
    /\ Trim(OrEmpty(b.summary)) # <<>>
    /\ Trim(OrEmpty(b.start)) # <<>>

\* what an event shows of the property lines of its own block b
ShownOf(b, tz) ==
    [summary     |-> Trim(b.summary),
     start       |-> Trim(icsDateToIso(b.start, tz)),
     location    |-> TrimmedOrUndefined(b.location),
     description |-> TrimmedOrUndefined(b.description),
     categories  |-> IF b.noise THEN << <<"A">>, <<"B">> >> ELSE Undefined]

Shown(ev) ==
    [summary |-> ev.summary, start |-> ev.start, location |-> ev.location,
     description |-> ev.description, categories |-> ev.categories]

\* the blocks of the text that emit, in the order of the text
EmittingBlocks(blocks) == SelectSeq(blocks, BlockEmits)

\* a and b hold the same elements the same number of times
SameUpToOrder(a, b) ==
    /\ Len(a) = Len(b)
    /\ \E p \in [1..Len(a) -> 1..Len(a)] :
          /\ \A i, j \in 1..Len(a) : i # j => p[i] # p[j]
          /\ \A i \in 1..Len(a) : a[i] = b[p[i]]

EventsAsExpected ==
    SameUpToOrder([i \in 1..Len(ics.events) |-> Shown(ics.events[i])],
                  [i \in 1..Len(EmittingBlocks(ics.blocks)) |->
                        ShownOf(EmittingBlocks(ics.blocks)[i], ics.tz)])

\* C13 (dropped-event rule), as claimed: the call returns one event for
\* each closed block with a summary and a start that are not empty after
\* trimming and none for any other block, each event showing the property
\* lines of its own block only, whatever the sibling blocks and the lines
\* outside the blocks are.
C13_DroppedEventRule ==
    Done => ics.pc = "returned" /\ EventsAsExpected

\* a comes before b by the code units of their characters
RECURSIVE LexBefore(_, _)
LexBefore(a, b) ==
    IF b = <<>> THEN FALSE
    ELSE IF a = <<>> THEN TRUE
    ELSE IF charCodeAt(a[1]) # charCodeAt(b[1]) THEN charCodeAt(a[1]) < charCodeAt(b[1])
    ELSE LexBefore(Tail(a), Tail(b))

\* C14 (sorting invariant), as claimed: in the returned list no event
\* comes after one whose start string is lexicographically greater.
C14_SortedByStart ==
    ics.pc = "returned" =>
        \A i, j \in 1..Len(ics.events) :
            i < j => ~LexBefore(ics.events[j].start, ics.events[i].start)

\* C15 (content-derived id), as claimed: two returned events with equal
\* summary, start, end and location have equal ids.
C15_ContentDerivedId ==
    ics.pc = "returned" =>
        \A i, j \in 1..Len(ics.events) :
            /\ ics.events[i].summary = ics.events[j].summary
            /\ ics.events[i].start = ics.events[j].start
            /\ ics.events[i].end = ics.events[j].end
            /\ ics.events[i].location = ics.events[j].location
            => ics.events[i].id = ics.events[j].id

\* the instant a decodable timestamp stands for
InstantOf(dt, tz) ==
    IF ShapeOf(dt) = "utc" THEN InstantWithFields(SubSeq(dt, 1, 15), 0)
    ELSE InstantWithFields(dt, tz)

\* the length of the durations of the model, as <<days, seconds>>
LengthOf(duration) ==
    CASE duration = NinetyMinutes -> <<0, 90 * 60>>
      [] duration = TooLong       -> <<99999999, 0>>
      [] OTHER                    -> <<0, 0>>

\* a duration of the form P[nD][T[nH][nM][nS]]
OfDurationForm(duration) == duration \in {NinetyMinutes, TooLong, BareP, BarePT}

\* the end that block b asks for: its explicit end, else its start plus
\* its duration
EndAskedBy(b, tz) ==
    IF b.end # Undefined THEN toISOString(InstantOf(b.end, tz))
    ELSE toISOString(LaterBy(InstantOf(b.start, tz), LengthOf(b.duration)))

\* C17 (duration fallback), as claimed: for each emitting block with a
\* decodable start, the returned list holds its event with the explicit end
\* when the block has one, and otherwise, when the block has a duration,
\* with the end that lies the duration after the start.
C17_DurationFallback ==
    Done =>
        \A k \in 1..Len(ics.blocks) :
            LET b == ics.blocks[k]
            IN  /\ BlockEmits(b)
                /\ ShapeOf(b.start) \in {"utc", "local"}
                /\ b.end # Undefined \/ OfDurationForm(b.duration)
                => /\ ics.pc = "returned"
                   /\ \E i \in 1..Len(ics.events) :
                         /\ ics.events[i].summary = Trim(b.summary)
                         /\ ics.events[i].start = toISOString(InstantOf(b.start, ics.tz))
                         /\ ics.events[i].end = EndAskedBy(b, ics.tz)

\* C18 (decoder totality), as claimed: the call never raises, and a text
\* without a closed block gives the empty list.
C18_DecoderTotality ==
    /\ ics.pc # "raised"
    /\ ics.pc = "returned" /\ (\A k \in 1..Len(ics.blocks) : ~ics.blocks[k].closed)
          => ics.events = <<>>


(***************************************************************************)
(* The byte checks of trainexSync.ts on real bytes: SniffSpec              *)
(* A buffer is a sequence of bytes 0..255, a decoded string a sequence of  *)
(* UTF-16 code units.  isIcsBytes, hasUtf16VCalendar and looksLikeIcs      *)
(* above are the values of these checks on the three kinds of body.        *)
(***************************************************************************)
\* "BEGIN:VCALENDAR"
VCalendar == <<66, 69, 71, 73, 78, 58, 86, 67, 65, 76, 69, 78, 68, 65, 82>>

\* buffer.toString('ascii'): the high bit of every byte is dropped
toStringAscii(buffer) == [i \in 1..Len(buffer) |-> buffer[i] % 128]

\* buffer.toString('utf16le'): pairs of bytes, low byte first; a last byte
\* without partner is left out
toStringUtf16le(buffer) ==
    [i \in 1..(Len(buffer) \div 2) |-> buffer[(2 * i) - 1] + (256 * buffer[2 * i])]

\* the /i flag of a RegExp without the u flag: a-z compare as A-Z; no code
\* unit above 127 compares equal to a letter of the marker
Canonicalize(ch) == IF ch >= 97 /\ ch <= 122 THEN ch - 32 ELSE ch

\* /BEGIN:VCALENDAR/i.test(text)
TestVCalendar(text) ==
    \E i \in 0..(Len(text) - Len(VCalendar)) :
        \A j \in 1..Len(VCalendar) : Canonicalize(text[i + j]) = VCalendar[j]

\* line 34-36
isIcsBytesIn(body) == TestVCalendar(toStringAscii(body))

\* lines 38-44
isUtf16Le(buffer) == Len(buffer) >= 2 /\ buffer[1] = 255 /\ buffer[2] = 254
isUtf16Be(buffer) == Len(buffer) >= 2 /\ buffer[1] = 254 /\ buffer[2] = 255

\* lines 53-57: Buffer.allocUnsafe(buffer.length - 2) filled by the loop
\* `for (i = 2; i + 1 < buffer.length; i += 2)`; of a buffer of odd length
\* the last byte is never written and holds whatever the memory held: junk
SwappedOf(buffer, junk) ==
    [p \in 1..(Len(buffer) - 2) |->
        IF p % 2 = 0 THEN buffer[p + 1]
        ELSE IF p + 3 <= Len(buffer) THEN buffer[p + 3]
        ELSE junk]

\* the utf16le branch only (lines 46-50, 59)
hasUtf16LeVCalendar(buffer, junk) ==
    IF Len(buffer) < 4 THEN FALSE
    ELSE IF isUtf16Le(buffer) THEN TestVCalendar(toStringUtf16le(buffer))
    ELSE FALSE

\* lines 46-60
hasUtf16VCalendarIn(buffer, junk) ==
    IF Len(buffer) < 4 THEN FALSE
    ELSE IF isUtf16Le(buffer) THEN TestVCalendar(toStringUtf16le(buffer))
    ELSE IF isUtf16Be(buffer) THEN TestVCalendar(toStringUtf16le(SwappedOf(buffer, junk)))
    ELSE FALSE

\* the bodies looked at: a marker text in some spelling, in some encoding,
\* behind some first bytes, with or without a byte before and after it
Spellings ==
    { VCalendar,
      <<98, 101, 103, 105, 110, 58, 118, 99, 97, 108, 101, 110, 100, 97, 114>>,
      <<66, 101, 103, 105, 110, 58, 86, 67, 97, 108, 101, 110, 100, 97, 114>>,
      <<66, 69, 71, 73, 78, 58, 86, 67, 65, 76, 69, 78, 68, 65>>,
      <<66, 69, 71, 73, 78, 32, 86, 67, 65, 76, 69, 78, 68, 65, 82>> }

Encodings == {"ascii", "high", "utf16le", "utf16be", "utf16le+1"}

Encode(text, how) ==
    CASE how = "ascii"     -> text
      [] how = "high"      -> [i \in 1..Len(text) |-> text[i] + 128]
      [] how = "utf16le"   -> [i \in 1..(2 * Len(text)) |->
                                  IF i % 2 = 1 THEN text[(i + 1) \div 2] ELSE 0]
      [] how = "utf16be"   -> [i \in 1..(2 * Len(text)) |->
                                  IF i % 2 = 0 THEN text[i \div 2] ELSE 0]
      [] how = "utf16le+1" -> [i \in 1..(2 * Len(text)) |->
                                  IF i % 2 = 1 THEN text[(i + 1) \div 2] ELSE 1]

FirstBytes == { <<>>, <<255, 254>>, <<254, 255>>, <<255, 255>>, <<239, 187, 191>>,
                <<255, 254, 60, 0>>, <<254, 255, 0, 60>> }
ByteOrNone == { <<>>, <<10>>, <<66>> }

SniffBodies ==
    { first \o text : first \in FirstBytes, text \in {<<>>, <<60>>, <<0, 60>>} }
    \cup { first \o Encode(text, how) \o after :
              first \in FirstBytes, text \in Spellings, how \in Encodings,
              after \in ByteOrNone }

SniffHeaders == {"none", "text/calendar", "text/html"}
JunkBytes    == {0, 82, 255}

SniffInit ==
    /\ run = NoRun /\ ref = NoRun /\ m = NoMain
    /\ \E body \in SniffBodies, headers \in SniffHeaders :
          ics = [pc |-> "isIcsBytes", body |-> body, headers |-> headers, result |-> FALSE]

\* looksLikeIcs, lines 63-64: `void headers; if (isIcsBytes(body)) return true`
SniffAscii ==
    /\ ics.pc = "isIcsBytes"
    /\ ics' = IF isIcsBytesIn(ics.body)
              THEN [ics EXCEPT !.pc = "sniffed", !.result = TRUE]
              ELSE [ics EXCEPT !.pc = "hasUtf16VCalendar"]
    /\ UNCHANGED <<run, ref, m>>

\* lines 65-66: `if (hasUtf16VCalendar(body)) return true; return false`
SniffUtf16 ==
    /\ ics.pc = "hasUtf16VCalendar"
    /\ \E junk \in JunkBytes :
          ics' = [ics EXCEPT !.pc = "sniffed", !.result = hasUtf16VCalendarIn(ics.body, junk)]
    /\ UNCHANGED <<run, ref, m>>

SniffNext == SniffAscii \/ SniffUtf16

SniffSpec == SniffInit /\ [][SniffNext]_vars

\* the pairs of bytes of a buffer, each swapped
SwapPairs(buffer) ==
    [i \in 1..Len(buffer) |->
        IF i % 2 = 0 THEN buffer[i - 1]
        ELSE IF i < Len(buffer) THEN buffer[i + 1]
        ELSE buffer[i]]

StartsWith(buffer, first) ==
    Len(buffer) >= Len(first) /\ SubSeq(buffer, 1, Len(first)) = first

\* C21 (byte sniffing): looksLikeIcs answers true exactly when the ASCII
\* decoding of the body contains BEGIN:VCALENDAR in any case, or the body
\* starts with FF FE and its UTF-16LE decoding contains it, or the body
\* starts with FE FF and the UTF-16LE decoding of its swapped byte pairs
\* contains it; the answer is the same under every response header (and
\* whatever the unwritten byte of the swap buffer holds).
C21_ByteSniffing ==
    ics.pc = "sniffed" =>
        ics.result =
            \/ TestVCalendar(toStringAscii(ics.body))
            \/ StartsWith(ics.body, <<255, 254>>) /\ TestVCalendar(toStringUtf16le(ics.body))
            \/ StartsWith(ics.body, <<254, 255>>)
                  /\ TestVCalendar(toStringUtf16le(SwapPairs(ics.body)))

\* C21 witness: a body of odd length that starts with FE FF, without the
\* marker in its ASCII decoding, was found to be calendar content under a
\* header that does not say so.
C21_Witness ==
    /\ ics.pc = "sniffed" /\ ics.result /\ ics.headers = "text/html"
    /\ StartsWith(ics.body, <<254, 255>>) /\ Len(ics.body) % 2 = 1
    /\ ~TestVCalendar(toStringAscii(ics.body))


(***************************************************************************)
(* URLs with their query strings (trainexSync.ts, lines 120-156): UrlSpec  *)
(* A URL is an origin, a path and the query as written: a sequence of      *)
(* name/value pairs, each a text still in its percent-encoding.  `%20`,    *)
(* `%2B` and `%26` are one character of such a text.                       *)
(***************************************************************************)
\* what URLSearchParams reads out of one written character ...
DecodeChar(c) ==
    CASE c = "+" -> SP [] c = "%20" -> SP [] c = "%2B" -> "+" [] c = "%26" -> "&"
      [] OTHER -> c

\* ... and how it writes one character
EncodeChar(c) ==
    CASE c = SP -> "+" [] c = "+" -> "%2B" [] c = "&" -> "%26"
      [] OTHER -> c

DecodeText(t) == [i \in 1..Len(t) |-> DecodeChar(t[i])]
EncodeText(t) == [i \in 1..Len(t) |-> EncodeChar(t[i])]

\* new URL(url).searchParams and, after a change of it, url.search
ParseSearch(search) ==
    [i \in 1..Len(search) |->
        [name |-> DecodeText(search[i].name), value |-> DecodeText(search[i].value)]]
SerializeSearch(params) ==
    [i \in 1..Len(params) |->
        [name |-> EncodeText(params[i].name), value |-> EncodeText(params[i].value)]]

Named(params, name) == { i \in 1..Len(params) : params[i].name = name }
First(idx) == CHOOSE i \in idx : \A j \in idx : i <= j
Last(idx)  == CHOOSE i \in idx : \A j \in idx : i >= j

\* URLSearchParams.set, and `out[k] = v` on an object: the first pair of
\* that name gets the value and every other pair of that name goes; without
\* such a pair a new one is added at the end
searchParamsSet(params, name, value) ==
    IF Named(params, name) = {} THEN Append(params, [name |-> name, value |-> value])
    ELSE LET at   == First(Named(params, name))
             keep == { i \in 1..Len(params) : i = at \/ params[i].name # name }
             nth(k) == CHOOSE i \in keep : Cardinality({ j \in keep : j < i }) = k - 1
         IN  [k \in 1..Cardinality(keep) |->
                 IF nth(k) = at THEN [name |-> name, value |-> value] ELSE params[nth(k)]]

\* the letters of the three patterns, whatever their case (flag i)
FoldChar(c) ==
    CASE c = "T" -> "t" [] c = "O" -> "o" [] c = "K" -> "k" [] c = "C" -> "c"
      [] c = "F" -> "f" [] c = "I" -> "i" [] c = "D" -> "d" [] c = "P" -> "p"
      [] c = "H" -> "h" [] c = "S" -> "s" [] c = "E" -> "e" [] OTHER -> c

HasPrefix(k, prefix) ==
    /\ Len(k) >= Len(prefix)
    /\ \A i \in 1..Len(prefix) : FoldChar(k[i]) = prefix[i]

\* /^<prefix>\d+$/i.test(k)
Numbered(k, prefix) ==
    HasPrefix(k, prefix) /\ Len(k) > Len(prefix) /\ AllDigits(Drop(k, Len(prefix)))

\* line 136
TokenTest(k) ==
    \/ Numbered(k, <<"t", "o", "k", "c", "f">>)
    \/ Numbered(k, <<"i", "d", "p", "h", "p">>)
    \/ HasPrefix(k, <<"s", "e", "c">>)

\* lines 135-139: the loop over u.searchParams.entries(), from pair i on
RECURSIVE ExtractFrom(_, _, _)
ExtractFrom(params, i, out) ==
    IF i > Len(params) THEN out
    ELSE ExtractFrom(params, i + 1,
                     IF TokenTest(params[i].name)
                     THEN searchParamsSet(out, params[i].name, params[i].value)
                     ELSE out)

\* every parameter kept (line 136 without its condition)
ExtractAll(url) == ParseSearch(url.search)

\* lines 132-141
extractSessionTokenParams(url) == ExtractFrom(ParseSearch(url.search), 1, <<>>)

RECURSIVE SetAll(_, _, _)
SetAll(params, tokens, i) ==
    IF i > Len(tokens) THEN params
    ELSE SetAll(searchParamsSet(params, tokens[i].name, tokens[i].value), tokens, i + 1)

Text(s)     == [i \in 1..Len(s) |-> s[i]]
StringOf(n) == DecOf(n, 1)
UtagOf(a)   == IF a.day > 0 THEN StringOf(a.day) ELSE <<>>

ICS    == <<"i", "c", "s">>
UMONAT == <<"u", "m", "o", "n", "a", "t">>
UJAHR  == <<"u", "j", "a", "h", "r">>
UTAG   == <<"u", "t", "a", "g">>

\* lines 125-128 and 151-154
SetDate(params, a) ==
    searchParamsSet(
        searchParamsSet(
            searchParamsSet(
                searchParamsSet(params, ICS, <<"1">>),
                UMONAT, StringOf(a.month)),
            UJAHR, StringOf(a.year)),
        UTAG, UtagOf(a))

\* lines 143-156, on the tokens of extractSessionTokenParams
buildTokenizedIcalUrlFrom(tokens, a) ==
    [origin |-> "portal", pathname |-> "iCal.cfm",
     search |-> SerializeSearch(SetDate(SetAll(<<>>, tokens, 1), a))]

\* the day parameter left as the URL has it (lines 125-127 only)
SetDateKeepingDay(url, a) ==
    [url EXCEPT !.search =
        SerializeSearch(
            searchParamsSet(
                searchParamsSet(
                    searchParamsSet(ParseSearch(url.search), ICS, <<"1">>),
                    UMONAT, StringOf(a.month)),
                UJAHR, StringOf(a.year)))]

\* lines 120-130, on a URL with its query
applyDateParamsTo(url, a) ==
    [url EXCEPT !.search = SerializeSearch(SetDate(ParseSearch(url.search), a))]

\* the URLs looked at
ParamNames ==
    { <<"T", "o", "k", "C", "F", "1">>, <<"t", "o", "k", "c", "f", "2", "2">>,
      <<"T", "o", "k", "C", "F">>, <<"T", "o", "k", "C", "F", "1", "x">>,
      <<"x", "T", "o", "k", "C", "F", "1">>,
      <<"I", "D", "p", "h", "p", "7">>, <<"I", "D", "p", "h", "p">>,
      <<"s", "e", "c">>, <<"S", "e", "c", "u", "r", "e">>, <<"x", "s", "e", "c">>,
      ICS, UMONAT, UJAHR, UTAG, <<"U", "T", "A", "G">>, <<"i", "d">> }

ParamValues == { <<>>, <<"9">>, <<"a", "%20", "b">>, <<"%2B", "+">> }

Pairs == [name : ParamNames, value : ParamValues]

MaxParams == 2

\* queries of up to MaxParams pairs, and longer ones that repeat a name
Searches ==
    SeqsUpTo(Pairs, MaxParams)
    \cup { <<p, q, [p EXCEPT !.value = <<"7">>]>> :
              p \in { x \in Pairs : x.value = <<"9">> }, q \in { x \in Pairs : x.value = <<>> } }

Dates == { [day |-> 0, month |-> 1, year |-> 2026],
           [day |-> 5, month |-> 12, year |-> 2026],
           [day |-> 31, month |-> 3, year |-> 2025] }

Places == { [origin |-> "portal", pathname |-> "iCal.cfm"],
            [origin |-> "other", pathname |-> "list.cfm"] }

NoTokens == <<>>

UrlInit ==
    /\ run = NoRun /\ ref = NoRun /\ m = NoMain
    /\ \E at \in Places, search \in Searches, a \in Dates :
          ics = [pc |-> "url",
                 url |-> [origin |-> at.origin, pathname |-> at.pathname, search |-> search],
                 a |-> a, tokens |-> NoTokens, built |-> NoUrl, stamped |-> NoUrl,
                 again |-> NoUrl]

\* line 330
ExtractTokens ==
    /\ ics.pc = "url"
    /\ ics' = [ics EXCEPT !.pc = "tokens", !.tokens = extractSessionTokenParams(ics.url)]
    /\ UNCHANGED <<run, ref, m>>

\* lines 334-335, 339
BuildTokenized ==
    /\ ics.pc = "tokens"
    /\ ics' = [ics EXCEPT !.pc = "built",
                          !.built = buildTokenizedIcalUrlFrom(ics.tokens, ics.a)]
    /\ UNCHANGED <<run, ref, m>>

\* lines 350, 375
ApplyDate ==
    /\ ics.pc = "built"
    /\ ics' = [ics EXCEPT !.pc = "stamped", !.stamped = applyDateParamsTo(ics.url, ics.a)]
    /\ UNCHANGED <<run, ref, m>>

\* ... and once more on its own result
ApplyDateAgain ==
    /\ ics.pc = "stamped"
    /\ ics' = [ics EXCEPT !.pc = "stampedAgain",
                          !.again = applyDateParamsTo(ics.stamped, ics.a)]
    /\ UNCHANGED <<run, ref, m>>

UrlNext == ExtractTokens \/ BuildTokenized \/ ApplyDate \/ ApplyDateAgain

UrlSpec == UrlInit /\ [][UrlNext]_vars

\* the three kinds of token name
IsTokenName(k) ==
    \/ /\ Len(k) > 5 /\ [i \in 1..5 |-> FoldChar(k[i])] = Text(<<"t", "o", "k", "c", "f">>)
       /\ \A i \in 6..Len(k) : k[i] \in Digits
    \/ /\ Len(k) > 5 /\ [i \in 1..5 |-> FoldChar(k[i])] = Text(<<"i", "d", "p", "h", "p">>)
       /\ \A i \in 6..Len(k) : k[i] \in Digits
    \/ /\ Len(k) >= 3 /\ [i \in 1..3 |-> FoldChar(k[i])] = Text(<<"s", "e", "c">>)

NamesOf(params) == { params[i].name : i \in 1..Len(params) }
ValueOf(params, name) == params[Last(Named(params, name))].value
Once(params, name) == Cardinality(Named(params, name)) = 1

DateParams(a) ==
    { [name |-> ICS, value |-> <<"1">>], [name |-> UMONAT, value |-> StringOf(a.month)],
      [name |-> UJAHR, value |-> StringOf(a.year)], [name |-> UTAG, value |-> UtagOf(a)] }

AsSet(params) == { params[i] : i \in 1..Len(params) }

\* C22 (token extraction): the mapping extractSessionTokenParams returns has
\* exactly the names of the query parameters of the URL that are a numbered
\* TokCF, a numbered IDphp or begin with sec, each once and with the value
\* the query gives that name (the last one, where the query repeats a name),
\* and the tokenized export URL carries those tokens and ics, umonat, ujahr
\* and utag of the request and nothing else.
C22_TokenExtraction ==
    LET params == ParseSearch(ics.url.search)
        built  == ParseSearch(ics.built.search)
    IN  /\ ics.pc \notin {"url"} =>
              /\ NamesOf(ics.tokens) = { k \in NamesOf(params) : IsTokenName(k) }
              /\ \A k \in NamesOf(ics.tokens) :
                    Once(ics.tokens, k) /\ ValueOf(ics.tokens, k) = ValueOf(params, k)
        /\ ics.pc \notin {"url", "tokens"} =>
              /\ AsSet(built) = AsSet(ics.tokens) \cup DateParams(ics.a)
              /\ Len(built) = Len(ics.tokens) + 4
              /\ ics.built.origin = "portal" /\ ics.built.pathname = "iCal.cfm"

\* C22 witness: from a query with a numbered token and a parameter that is
\* none, the tokenized URL was built with that token alone.
C22_Witness ==
    /\ ics.pc = "built" /\ Len(ics.url.search) = 2 /\ Len(ics.tokens) = 1
    /\ ics.tokens[1].name = <<"T", "o", "k", "C", "F", "1">>
    /\ ics.tokens[1].value = <<"a", SP, "b">>
    /\ <<"i", "d">> \in NamesOf(ParseSearch(ics.url.search))

IsDateName(k) == k \in {ICS, UMONAT, UJAHR, UTAG}
NotDateParam(p) == ~IsDateName(p.name)

\* C23 (URL re-stamping): the result of applyDateParams has the origin and
\* path of the URL, ics = 1, umonat = month, ujahr = year and utag = day
\* (empty for day 0), each once, and every other parameter of the URL with
\* its value, in the same order; applied to its own result with the same
\* date it changes nothing.
C23_Restamping ==
    LET before == ParseSearch(ics.url.search)
        after  == ParseSearch(ics.stamped.search)
    IN  /\ ics.pc \in {"stamped", "stampedAgain"} =>
              /\ ics.stamped.origin = ics.url.origin
              /\ ics.stamped.pathname = ics.url.pathname
              /\ \A p \in DateParams(ics.a) :
                    Once(after, p.name) /\ ValueOf(after, p.name) = p.value
              /\ SelectSeq(after, NotDateParam) = SelectSeq(before, NotDateParam)
        /\ ics.pc = "stampedAgain" => ics.again = ics.stamped

\* C23 witness: a URL that named utag twice and had another parameter was
\* stamped for a whole month (day 0), and stamped again.
C23_Witness ==
    /\ ics.pc = "stampedAgain" /\ ics.a.day = 0
    /\ Cardinality(Named(ParseSearch(ics.url.search), UTAG)) = 2
    /\ ValueOf(ParseSearch(ics.url.search), UTAG) # <<>>
    /\ \E i \in 1..Len(ics.url.search) : ~IsDateName(ics.url.search[i].name)


(***************************************************************************)
(* Failures, retries and the order of fetches within one call (Spec)       *)
(***************************************************************************)
\* why a call failed: the portal still showed the login form; an operation
\* of the browser session raised (a timeout is the exception Playwright
\* raises when an operation exceeds page.setDefaultTimeout); every
\* candidate of the chain missed
AuthenticationFailed(r) == r.login = "failed"
OperationTimedOut(r)    == r.raisedBy = "browser" /\ r.browser # "none"
NoCandidateWorked(r)    == r.login = "passed" /\ DomFetched(r) /\ AllMissed(r)

\* C24 (failure messages), as claimed: a call that failed by authentication
\* failure, one that failed by the timeout of an operation and one in which
\* no candidate worked return three messages, one per kind of failure, no
\* two of them the same.
C24_FailureMessages ==
    /\ Cardinality({E_LOGIN, E_UNEXPECTED, E_LOAD}) = 3
    /\ run.pc = "done" =>
          /\ AuthenticationFailed(run) => run.result.error = E_LOGIN
          /\ OperationTimedOut(run)    => run.result.error = E_UNEXPECTED
          /\ NoCandidateWorked(run)    => run.result.error = E_LOAD

SubmitIdx(r) == { i \in 1..Len(r.trace) : r.trace[i].op = "submit" }

\* C25 (no retries), as claimed: the login form is submitted at most once,
\* and no URL is fetched twice within one call.
C25_NoRetries ==
    /\ Cardinality(SubmitIdx(run)) <= 1
    /\ \A i, j \in FetchIdx(run) : i < j => run.trace[i].url # run.trace[j].url

\* the fetches of one chain step that builds its URLs from the requested
\* date: the step `by` of bootstrap page k (k = 0 after the loop)
DateSteps == {"bootToken", "bootPage", "direct", "indexScan"}
FetchesOf(r, by, k) == { i \in FetchIdx(r) : r.trace[i].by = by /\ r.trace[i].k = k }

\* C29 (month before day), as claimed: of each such step the first fetch is
\* of the month-scoped URL (utag empty); a second fetch is of the day-scoped
\* URL and comes only after the first has missed; and in a call that is
\* over, every such step whose month-scoped fetch missed has fetched the
\* day-scoped URL too.
C29_MonthBeforeDay ==
    \A by \in DateSteps, k \in 0..Len(tokenBootstrapUrls) :
        LET F == FetchesOf(run, by, k)
        IN  F # {} =>
              /\ Cardinality(F) <= 2
              /\ run.trace[First(F)].url.utag = Empty
              /\ Stamped(run.trace[First(F)].url, MonthScope(run.args))
              /\ Cardinality(F) = 2 =>
                    /\ run.trace[First(F)].ret = "null"
                    /\ Last(F) = First(F) + 1
                    /\ run.trace[Last(F)].url.utag =
                          IF run.args.day > 0 THEN Str(run.args.day) ELSE Empty
              /\ (Ended(run) /\ MissedAt(run, First(F))) => Cardinality(F) = 2

\* the position the chain is at after a step in which only best-effort
\* operations failed
InFixedOrder(r) ==
    IF "content" \in r.swallowed /\ ~(LastOp(r).op = "goto" /\ LastOp(r).by = "index")
    THEN \* page.content() of bootstrap page LastOp(r).k: no link, next page
         /\ r.icalUrl = NoUrl
         /\ \/ r.pc = "bootNav" /\ r.k = LastOp(r).k + 1 /\ r.k <= Len(tokenBootstrapUrls)
            \/ r.pc = "directMonth" /\ LastOp(r).k = Len(tokenBootstrapUrls)
    ELSE CASE LastOp(r).op = "submit" -> r.pc = "checkLogin"
           [] LastOp(r).op = "goto" /\ LastOp(r).by = "bootstrap" ->
                  r.pc = IF r.tokens THEN "bootTokMonth" ELSE "bootScan"
           [] LastOp(r).op = "goto" /\ LastOp(r).by = "index" ->
                  /\ r.pc = IF r.htmlAny # NoUrl THEN "indexMonth" ELSE "indexHref"
                  /\ "content" \in r.swallowed => r.htmlAny = NoUrl /\ r.htmlHref = NoUrl
           [] OTHER -> FALSE

\* C30 (best-effort waits): after a step in which the network-idle wait, a
\* bootstrap or index-page navigation, or the reading of the page HTML
\* failed or timed out, the call has no result yet and is at the next
\* action of the fixed order - unless a callback invoked later in the same
\* step raised, which ends the call in the same way when nothing failed.
C30_BestEffortWaits ==
    ((run.swallowed # {} \/ run.lastNav = "failed") /\ run.raisedBy # "callback") =>
        /\ run.result = Pending /\ run.raised = "none" /\ ~Ended(run)
        /\ InFixedOrder(run)

\* C30 witness: on the index page the navigation, the network-idle wait and
\* page.content() all failed, and the call goes on with the next discovery.
C30_Witness ==
    /\ run.swallowed = {"networkidle", "content"} /\ run.lastNav = "failed"
    /\ run.pc = "indexHref" /\ run.result = Pending


(***************************************************************************)
(* Automatic refresh and the stored password (MainSpec)                    *)
(***************************************************************************)
MinuteOfDay(t) == t % (24 * 60)

\* C26 (auto-refresh window), as claimed: a retrieval of runAutoRefreshTick
\* starts only between 06:00 and 20:00 of the day in Europe/Berlin.
C26_AutoRefreshWindow ==
    \A i \in DOMAIN m.autoStarts :
        /\ MinuteOfDay(m.autoStarts[i]) >= WindowFrom * 60
        /\ MinuteOfDay(m.autoStarts[i]) <= WindowTo * 60

\* C27 (auto-refresh cadence), as claimed: two retrievals of
\* runAutoRefreshTick start at least two hours apart, whatever happened in
\* between and however the earlier one ended.
C27_AutoRefreshCadence ==
    Len(m.autoStarts) = 2 => m.autoStarts[2] - m.autoStarts[1] >= CooldownMin

\* C28 (password stored only on opt-in), as claimed: the settings hold an
\* encrypted password, in memory or in settings.json, only if the last
\* 'settings:set' that returned ok had savePassword = true (so none after
\* one with savePassword = false), and no password was ever encrypted for
\* storing that, with its user name, was not the credentials of the last
\* successful manual sync.
C28_PasswordOnOptIn ==
    /\ (\/ m.settings.encryptedPasswordBase64 # NoPassword
        \/ m.disk.encryptedPasswordBase64 # NoPassword) => m.lastSet = "save"
    /\ ~m.unverified


(***************************************************************************)
(* The probing of one bootstrap page                                       *)
(***************************************************************************)
Visited(r, k) == \E i \in 1..Len(r.trace) :
                    r.trace[i].op = "goto" /\ r.trace[i].by = "bootstrap" /\ r.trace[i].k = k

\* the call has not yet come to the tokenized fetches / to the scan of page k
BeforeTokenFetch(r, k) == r.k = k /\ r.pc = "bootTokMonth"
BeforeScan(r, k)       == r.k = k /\ r.pc \in {"bootTokMonth", "bootTokDay", "bootScan"}

\* C31 (bootstrap probing), as claimed: of every bootstrap page navigated
\* to, tokenized export URLs are fetched if and only if the page's final
\* URL carried a session token, and once those fetches are absent or have
\* missed, the page's HTML is scanned, with or without tokens.
C31_BootstrapProbing ==
    \A k \in 1..Len(tokenBootstrapUrls) :
        Visited(run, k) =>
            LET tf == FetchesOf(run, "bootToken", k)
            IN  /\ tf # {} => k \in run.tokenPages
                /\ (k \in run.tokenPages /\ ~BeforeTokenFetch(run, k)) => tf # {}
                /\ ((\A i \in tf : MissedAt(run, i)) /\ ~BeforeScan(run, k))
                       => k \in run.scanned


(***************************************************************************)
(* The end of an event (ParseSpec)                                         *)
(***************************************************************************)
\* a duration that is absent, does not match the duration pattern, or has
\* no component at all ("P", "PT")
Unusable(duration) ==
    \/ duration = Undefined
    \/ parseIcsDurationToMs(duration) = NoDuration
    \/ toUpperCase(Trim(duration)) \in {<<"P">>, <<"P", "T">>}

\* C32 (end is always set), as claimed: every returned event has an end
\* that is not empty, and each emitting block with neither an end nor a
\* usable duration has its event in the list with the end equal to the
\* start.
C32_EndAlwaysSet ==
    ics.pc = "returned" =>
        /\ \A i \in 1..Len(ics.events) : ics.events[i].end # <<>>
        /\ \A k \in 1..Len(ics.blocks) :
              LET b == ics.blocks[k]
              IN  (BlockEmits(b) /\ b.end = Undefined /\ Unusable(b.duration)) =>
                      \E i \in 1..Len(ics.events) :
                          /\ ics.events[i].summary = Trim(b.summary)
                          /\ ics.events[i].start = Trim(icsDateToIso(b.start, ics.tz))
                          /\ ics.events[i].end = ics.events[i].start


(***************************************************************************)
(* Escaped text values: EscapeSpec                                         *)
(* A text value is written in its escaped form and handed to               *)
(* unescapeIcsText.                                                        *)
(***************************************************************************)
\* the escaped form of a text: backslash as two backslashes, newline as
\* backslash-n, comma as backslash-comma, semicolon as backslash-semicolon
EscapeOf(c) ==
    CASE c = "\\" -> <<"\\", "\\">>
      [] c = LF   -> <<"\\", "n">>
      [] c = ","  -> <<"\\", ",">>
      [] c = ";"  -> <<"\\", ";">>
      [] OTHER    -> <<c>>

RECURSIVE escapeIcsText(_)
escapeIcsText(t) == IF t = <<>> THEN <<>> ELSE EscapeOf(t[1]) \o escapeIcsText(Tail(t))

MaxValueLen == 3
ValueChars  == {"\\", "n", LF, ",", ";", "a"}

EscapeInit ==
    /\ run = NoRun /\ ref = NoRun /\ m = NoMain
    /\ \E t \in SeqsUpTo(ValueChars, MaxValueLen) :
          ics = [pc |-> "text", text |-> t, escaped |-> <<>>, value |-> <<>>]

WriteEscaped ==
    /\ ics.pc = "text"
    /\ ics' = [ics EXCEPT !.pc = "escaped", !.escaped = escapeIcsText(ics.text)]
    /\ UNCHANGED <<run, ref, m>>

\* lines 300-306
Unescape ==
    /\ ics.pc = "escaped"
    /\ ics' = [ics EXCEPT !.pc = "unescaped", !.value = unescapeIcsText(ics.escaped)]
    /\ UNCHANGED <<run, ref, m>>

EscapeNext == WriteEscaped \/ Unescape

EscapeSpec == EscapeInit /\ [][EscapeNext]_vars

\* C33 (unescape inverts escape), as claimed: unescapeIcsText applied to
\* the escaped form of a text gives the text back.
C33_UnescapeInvertsEscape ==
    ics.pc = "unescaped" => ics.value = ics.text


(***************************************************************************)
(* The choice of the text encoding (index.ts, decodeIcsText): DecodeSpec   *)
(* A buffer is a sequence of bytes, a text a sequence of UTF-16 code       *)
(* units.                                                                  *)
(***************************************************************************)
\* U+FFFD, and the characters of the mojibake test of line 460 (U+00C3,
\* U+00C2)
ReplacementChar == 65533
MojibakeChars   == {195, 194}
ZeroWidthNoBreakSpace == 65279

IsContinuation(b) == b >= 128 /\ b <= 191

\* the second byte a three-byte sequence with first byte b1 may have
SecondOfThree(b1, b2) ==
    CASE b1 = 224 -> b2 >= 160 /\ b2 <= 191
      [] b1 = 237 -> b2 >= 128 /\ b2 <= 159
      [] OTHER    -> IsContinuation(b2)

\* buffer.toString('utf-8'): every maximal ill-formed part becomes U+FFFD;
\* a byte order mark is kept.  (Four-byte sequences, first byte 240..244,
\* do not occur in the buffers of the model.)
RECURSIVE toStringUtf8(_)
toStringUtf8(b) ==
    IF b = <<>> THEN <<>>
    ELSE IF b[1] < 128 THEN <<b[1]>> \o toStringUtf8(Tail(b))
    ELSE IF b[1] >= 194 /\ b[1] <= 223
    THEN IF Len(b) >= 2 /\ IsContinuation(b[2])
         THEN <<(b[1] - 192) * 64 + (b[2] - 128)>> \o toStringUtf8(Drop(b, 2))
         ELSE <<ReplacementChar>> \o toStringUtf8(Tail(b))
    ELSE IF b[1] >= 224 /\ b[1] <= 239
    THEN IF Len(b) >= 2 /\ SecondOfThree(b[1], b[2])
         THEN IF Len(b) >= 3 /\ IsContinuation(b[3])
              THEN <<(b[1] - 224) * 4096 + (b[2] - 128) * 64 + (b[3] - 128)>>
                       \o toStringUtf8(Drop(b, 3))
              ELSE <<ReplacementChar>> \o toStringUtf8(Drop(b, 2))
         ELSE <<ReplacementChar>> \o toStringUtf8(Tail(b))
    ELSE <<ReplacementChar>> \o toStringUtf8(Tail(b))

\* the characters of the bytes 128..159 in Windows-1252 (iconv-lite gives
\* U+FFFD for the five bytes the code page leaves undefined)
Win1252High ==
    <<8364, 65533, 8218, 402, 8222, 8230, 8224, 8225, 710, 8240, 352, 8249, 338, 65533, 381, 65533,
      65533, 8216, 8217, 8220, 8221, 8226, 8211, 8212, 732, 8482, 353, 8250, 339, 65533, 382, 376>>

\* iconv.decode(buffer, 'win1252')
decodeWin1252(b) ==
    [i \in 1..Len(b) |-> IF b[i] >= 128 /\ b[i] <= 159 THEN Win1252High[b[i] - 127] ELSE b[i]]

\* iconv-lite removes a byte order mark at the head of what it decoded
StripBom(t) == IF t # <<>> /\ t[1] = ZeroWidthNoBreakSpace THEN Tail(t) ELSE t

\* iconv.decode(buffer, 'utf16le') / iconv.decode(buffer, 'utf16be'): an
\* odd last byte is dropped
decodeUtf16le(b) == StripBom([i \in 1..(Len(b) \div 2) |-> b[2 * i - 1] + 256 * b[2 * i]])
decodeUtf16be(b) == StripBom([i \in 1..(Len(b) \div 2) |-> 256 * b[2 * i - 1] + b[2 * i]])

\* (text.match(/[...]/g) ?? []).length
CountOf(t, chars) == Cardinality({ i \in 1..Len(t) : t[i] \in chars })

\* the choice with Windows-1252 also taken when it has as many mojibake
\* characters as UTF-8, which C34_DecodeSelection has to tell from
\* decodeIcsText
decodeIcsTextOnTie(buffer) ==
    IF Len(buffer) >= 2 /\ buffer[1] = 255 /\ buffer[2] = 254 THEN decodeUtf16le(buffer)
    ELSE IF Len(buffer) >= 2 /\ buffer[1] = 254 /\ buffer[2] = 255 THEN decodeUtf16be(buffer)
    ELSE IF Len(buffer) >= 3 /\ buffer[1] = 239 /\ buffer[2] = 187 /\ buffer[3] = 191
    THEN toStringUtf8(buffer)
    ELSE IF CountOf(toStringUtf8(buffer), {ReplacementChar}) > 0 THEN decodeWin1252(buffer)
    ELSE IF CountOf(toStringUtf8(buffer), MojibakeChars) > 0
    THEN IF CountOf(decodeWin1252(buffer), MojibakeChars)
                <= CountOf(toStringUtf8(buffer), MojibakeChars)
         THEN decodeWin1252(buffer)
         ELSE toStringUtf8(buffer)
    ELSE toStringUtf8(buffer)

\* lines 442-468
decodeIcsText(buffer) ==
    IF Len(buffer) >= 2 /\ buffer[1] = 255 /\ buffer[2] = 254 THEN decodeUtf16le(buffer)
    ELSE IF Len(buffer) >= 2 /\ buffer[1] = 254 /\ buffer[2] = 255 THEN decodeUtf16be(buffer)
    ELSE IF Len(buffer) >= 3 /\ buffer[1] = 239 /\ buffer[2] = 187 /\ buffer[3] = 191
    THEN toStringUtf8(buffer)
    ELSE IF CountOf(toStringUtf8(buffer), {ReplacementChar}) > 0 THEN decodeWin1252(buffer)
    ELSE IF CountOf(toStringUtf8(buffer), MojibakeChars) > 0
    THEN IF CountOf(decodeWin1252(buffer), MojibakeChars)
                < CountOf(toStringUtf8(buffer), MojibakeChars)
         THEN decodeWin1252(buffer)
         ELSE toStringUtf8(buffer)
    ELSE toStringUtf8(buffer)

\* the bytes of the model: NUL, A, three continuation bytes, the first
\* bytes of two- and three-byte sequences, and the bytes of the three byte
\* order marks
MaxBytes    == 4
DecodeBytes == {0, 65, 131, 187, 191, 195, 228, 239, 254, 255}

DecodeInit ==
    /\ run = NoRun /\ ref = NoRun /\ m = NoMain
    /\ \E buffer \in SeqsUpTo(DecodeBytes, MaxBytes) :
          ics = [pc |-> "bytes", buffer |-> buffer, text |-> <<>>, first |-> <<>>]

DecodeBuffer ==
    /\ ics.pc = "bytes"
    /\ ics' = [ics EXCEPT !.pc = "decoded", !.text = decodeIcsText(ics.buffer)]
    /\ UNCHANGED <<run, ref, m>>

\* the same buffer is decoded once more
DecodeAgain ==
    /\ ics.pc = "decoded"
    /\ ics' = [ics EXCEPT !.pc = "again", !.text = decodeIcsText(ics.buffer), !.first = ics.text]
    /\ UNCHANGED <<run, ref, m>>

DecodeNext == DecodeBuffer \/ DecodeAgain

DecodeSpec == DecodeInit /\ [][DecodeNext]_vars

HasPrefixBytes(buffer, bom) == Len(buffer) >= Len(bom) /\ SubSeq(buffer, 1, Len(bom)) = bom

\* the encoding the fixed priority asks for
ChosenEncoding(buffer) ==
    LET asUtf8    == toStringUtf8(buffer)
        asWin1252 == decodeWin1252(buffer)
    IN  IF HasPrefixBytes(buffer, <<255, 254>>) THEN "utf16le"
        ELSE IF HasPrefixBytes(buffer, <<254, 255>>) THEN "utf16be"
        ELSE IF HasPrefixBytes(buffer, <<239, 187, 191>>) THEN "utf8"
        ELSE IF \E i \in 1..Len(asUtf8) : asUtf8[i] = ReplacementChar THEN "win1252"
        ELSE IF /\ \E i \in 1..Len(asUtf8) : asUtf8[i] \in MojibakeChars
                /\ CountOf(asWin1252, MojibakeChars) < CountOf(asUtf8, MojibakeChars)
        THEN "win1252"
        ELSE "utf8"

DecodedAs(buffer, encoding) ==
    CASE encoding = "utf16le" -> decodeUtf16le(buffer)
      [] encoding = "utf16be" -> decodeUtf16be(buffer)
      [] encoding = "win1252" -> decodeWin1252(buffer)
      [] encoding = "utf8"    -> toStringUtf8(buffer)

\* C34 (text decode selection): the text decodeIcsText returns is the
\* buffer decoded in the encoding the fixed priority asks for (UTF-16LE
\* after FF FE, UTF-16BE after FE FF, UTF-8 after EF BB BF, else
\* Windows-1252 when the UTF-8 text holds U+FFFD, else Windows-1252 when the
\* UTF-8 text holds mojibake characters and the Windows-1252 text strictly
\* fewer, else UTF-8); a buffer of ASCII bytes decodes to the same
\* characters; and decoding the same buffer again gives the same text.
C34_DecodeSelection ==
    /\ ics.pc \in {"decoded", "again"} =>
          /\ ics.text = DecodedAs(ics.buffer, ChosenEncoding(ics.buffer))
          /\ (\A i \in 1..Len(ics.buffer) : ics.buffer[i] < 128) => ics.text = ics.buffer
    /\ ics.pc = "again" => ics.text = ics.first

\* C34 witness: the bytes C3 83 are valid UTF-8 for one mojibake character,
\* Windows-1252 reads as many in them, and the UTF-8 text is returned.
C34_Witness ==
    /\ ics.pc = "decoded" /\ ics.buffer = <<195, 131>>
    /\ CountOf(decodeWin1252(ics.buffer), MojibakeChars) = 1
    /\ ics.text = <<195>>


(***************************************************************************)
(* The cache file and its handlers (index.ts): CacheSpec                   *)
(* The main process with a window, manual syncs, file imports,             *)
(* 'load-last-ics' and 'clear-cache'.                                      *)
(***************************************************************************)
\* null
NoResult == [null |-> TRUE, text |-> <<>>]
TextResult(text) == [null |-> FALSE, text |-> text]

\* what has happened so far:
\*   latest    the text of the last sync that returned ok or of the last
\*             import that returned, null after a 'clear-cache' that
\*             returned true
\*   loaded    what the last 'load-last-ics' returned, and `latest` then
\*   lastSync  how the last sync ended, and the cache file before and after
CacheGhost ==
    [latest |-> NoResult,
     loaded |-> [done |-> FALSE, result |-> NoResult, latest |-> NoResult],
     lastSync |-> [ended |-> "none", before |-> NoFile, after |-> NoFile]]

\* the files the user can pick: empty, "A" in ASCII, a-umlaut in UTF-8, and
\* UTF-16LE with byte order mark holding one high surrogate (D800)
ImportBuffers == {<<>>, <<65>>, <<195, 164>>, <<255, 254, 0, 216>>}

CacheInit ==
    /\ run = NoRun /\ ref = NoRun /\ ics = NoIcs
    /\ m = [InitMain EXCEPT !.ready = TRUE] @@ CacheGhost

\* ipcMain.handle('sync-trainex-ics'), lines 319-333
CacheSyncStart ==
    /\ Room
    /\ \E c \in { l \in Logins : l.password = <<"p">> }, e \in StartEnvs :
          m' = StartSync(m, "manual", c.username, c.password, e)
    /\ UNCHANGED <<run, ref, ics>>

\* the retrieval ends and runSyncWithCredentials resumes, lines 193-228
CacheSyncDone ==
    /\ \E i \in 1..Len(m.calls), outcome \in {"ok", "fail", "rejected"},
          text \in SyncTexts, post \in 0..2 :
          /\ outcome = "rejected" => post = 0
          /\ outcome = "fail" => post < 2
          /\ (outcome # "ok" \/ post = 1) => text = TextA
          /\ LET f == FinishSync(m, i, outcome, text, post)
             IN  m' = [f.st EXCEPT
                          !.latest = IF outcome = "ok" /\ f.returned THEN TextResult(text) ELSE @,
                          !.lastSync = [ended  |-> IF ~f.returned THEN "raised" ELSE outcome,
                                        before |-> m.cache, after |-> f.st.cache]]
    /\ UNCHANGED <<run, ref, ics>>

\* ipcMain.handle('open-ics-file'), lines 262-276; how: the dialog is
\* cancelled, reading the file raises, writing the cache raises, or all
\* goes well
OpenIcsFile ==
    /\ \E buffer \in ImportBuffers, how \in {"canceled", "readRaises", "writeRaises", "ok"} :
          m' = IF how # "ok" THEN m
               ELSE [m EXCEPT !.cache  = writeLastIcsCache(decodeIcsText(buffer)),
                              !.latest = TextResult(decodeIcsText(buffer))]
    /\ UNCHANGED <<run, ref, ics>>

\* ipcMain.handle('load-last-ics'), lines 278-286; fs.readFileSync(p,
\* 'utf-8') decodes as buffer.toString('utf-8') does
LoadLastIcs ==
    /\ \E readRaises \in BOOLEAN :
          m' = [m EXCEPT !.loaded =
                   [done   |-> TRUE,
                    result |-> IF ~m.cache.exists \/ readRaises THEN NoResult
                               ELSE TextResult(toStringUtf8(m.cache.bytes)),
                    latest |-> m.latest]]
    /\ UNCHANGED <<run, ref, ics>>

\* ipcMain.handle('clear-cache'), lines 288-295
ClearCache ==
    /\ \E rmRaises \in BOOLEAN :
          m' = IF rmRaises THEN m
               ELSE [m EXCEPT !.cache = NoFile, !.latest = NoResult]
    /\ UNCHANGED <<run, ref, ics>>

CacheNext ==
    \/ CacheSyncStart \/ CacheSyncDone \/ OpenIcsFile \/ LoadLastIcs \/ ClearCache

CacheSpec == CacheInit /\ [][CacheNext]_vars

\* C35 (cache state), as claimed: 'load-last-ics' returns the text of the
\* most recent successful sync or file import since the last successful
\* 'clear-cache', null when there is none; and a sync that ended in Failure
\* left the cache file as it was.
C35_CacheState ==
    /\ m.loaded.done => m.loaded.result = m.loaded.latest
    /\ m.lastSync.ended = "fail" => m.lastSync.after = m.lastSync.before


(***************************************************************************)
(* The length of the chain (trainexSync.ts)                                *)
(***************************************************************************)
\* every step is taken once it can be: each browser operation of the call
\* returns or raises (times out), none hangs
FairSpec == Spec /\ WF_vars(Next)

GotoIdx(r) == { i \in 1..Len(r.trace) : r.trace[i].op = "goto" }

\* 4 fetch attempts for each bootstrap page, 2 direct, 2 for the link
\* scanned from the index page, 1 for its export link, 1 for the DOM anchor
FetchBound == 4 * Len(tokenBootstrapUrls) + 2 + 2 + 1 + 1
\* the landing page, the bootstrap pages, the index page
GotoBound  == 1 + Len(tokenBootstrapUrls) + 1

\* C36 (bounded chain), as claimed: every call ends, and has then made at
\* most 18 fetch attempts and at most 5 page navigations.
C36_BoundedChain ==
    /\ [](/\ Cardinality(FetchIdx(run)) <= FetchBound
          /\ Cardinality(GotoIdx(run)) <= GotoBound)
    /\ <>(run.pc = "done")

\* a call that is over after 18 fetch attempts and 5 navigations
C36_Witness ==
    /\ run.pc = "done"
    /\ Cardinality(FetchIdx(run)) = 18
    /\ Cardinality(GotoIdx(run)) = 5


(***************************************************************************)
(* A fetch attempt that raises (trainexSync.ts)                            *)
(***************************************************************************)
\* what page.request.get and resp.body raise with
FetchMessages == {"request.get failed", "resp.body failed"}

\* the fetch run.trace[i] raised of itself: no response, or no body, came
\* back (a logger raising inside tryFetch is the other way it can raise)
FetchRaised(r, i) ==
    IsFetch(r.trace[i]) /\ r.trace[i].ret = "raise" /\ r.raisedBy # "callback"

\* C37 (fetch exception aborts the chain), as claimed: when a fetch attempt
\* raises instead of returning a response, nothing is tried after it and
\* the call returns the unexpected-error Failure with the exception's
\* message as hint.
C37_FetchExceptionAborts ==
    \A i \in 1..Len(run.trace) :
        FetchRaised(run, i) =>
            /\ i = Len(run.trace)
            /\ Ended(run)
            /\ run.raised \in FetchMessages
            /\ run.result = Failure(E_UNEXPECTED, run.raised)

\* a call that is over, whose third fetch attempt raised after two misses
C37_Witness ==
    /\ run.pc = "done"
    /\ Cardinality(FetchIdx(run)) = 3
    /\ FetchRaised(run, Len(run.trace))
    /\ run.result = Failure(E_UNEXPECTED, "request.get failed")


(***************************************************************************)
(* Links found in a page (trainexSync.ts, lines 85-118, 181-196): LinkSpec *)
(* A page is the sequence of the href values of its anchors.  An href is   *)
(* what stands before the file name, whether the file is the export        *)
(* einsatzplan_listenansicht_iCal.cfm, and whether its query holds ics=1   *)
(* and a session token.                                                    *)
(***************************************************************************)
\* the origin of BASE_URL, line 22
PortalOrigin == "https://trex.phwt.de"

\* before the file name: nothing (a relative link), the portal's directory
\* in full, another site in full, another site without scheme (//host/)
Prefixes == {"", "https://trex.phwt.de/phwt-trainex/cfm/einsatzplan/",
             "http://other.example/", "//other.example/"}

Hrefs == [prefix : Prefixes, export : BOOLEAN, ics : BOOLEAN, tok : BOOLEAN]

MaxAnchors == 2
Pages == UNION { [1..n -> Hrefs] : n \in 0..MaxAnchors }

\* /^https?:\/\//i.test(url)
IsAbsoluteHttp(prefix) ==
    prefix \in {"https://trex.phwt.de/phwt-trainex/cfm/einsatzplan/", "http://other.example/"}

\* new URL(url, BASE_URL).origin and new URL(url).origin
OriginOf(prefix) ==
    CASE prefix = "" -> PortalOrigin
      [] prefix = "https://trex.phwt.de/phwt-trainex/cfm/einsatzplan/" -> PortalOrigin
      [] prefix = "http://other.example/" -> "http://other.example"
      [] prefix = "//other.example/" -> "https://other.example"

\* lines 85-88; the date parameters of a link in a page are those of the
\* page's month
normalizeUrl(href) ==
    [origin |-> OriginOf(href.prefix), tok |-> href.tok,
     utag |-> Str(1), umonat |-> Str(1), ujahr |-> Str(2025)]

\* the first index of seq whose element satisfies the test, 0 if none
RECURSIVE FirstFrom(_, _, _)
FirstFrom(seq, ok, i) ==
    IF i > Len(seq) THEN 0 ELSE IF ok[i] THEN i ELSE FirstFrom(seq, ok, i + 1)

\* lines 107-118: the regular expression of line 109 matches from the file
\* name on, so that a match has nothing before the file name
findAnyIcalUrlFromHtml(html) ==
    LET matches   == [ i \in DOMAIN html |-> [html[i] EXCEPT !.prefix = ""] ]
        any       == FirstFrom(html, [ i \in DOMAIN html |-> html[i].export ], 1)
        preferred == FirstFrom(html, [ i \in DOMAIN html |-> html[i].export /\ html[i].tok ], 1)
    IN  IF any = 0 THEN NoUrl
        ELSE normalizeUrl(matches[IF preferred # 0 THEN preferred ELSE any])

\* lines 99-105: the group of line 101 begins after the quote, so that it
\* holds the whole href
findIcsExportUrlFromHtml(html) ==
    LET first == FirstFrom(html, [ i \in DOMAIN html |-> html[i].export /\ html[i].ics ], 1)
    IN  IF first = 0 THEN NoUrl ELSE normalizeUrl(html[first])

\* lines 181-196
discoverIcsUrl(html) ==
    LET first == FirstFrom(html, [ i \in DOMAIN html |-> html[i].export /\ html[i].ics ], 1)
    IN  IF first = 0 THEN NoUrl ELSE normalizeUrl(html[first])

LinkArgs == [day |-> 5, month |-> 3, year |-> 2026]

LinkInit ==
    /\ run = NoRun /\ ref = NoRun /\ m = NoMain
    /\ ics \in { [pc |-> "page", html |-> html, by |-> "none", urls |-> {}] : html \in Pages }

\* the page after the step `by` passed `urls` to tryFetch
Fetching(by, urls) == [ics EXCEPT !.pc = "fetched", !.by = by, !.urls = urls]

Scanned(url) ==
    IF url = NoUrl THEN {}
    ELSE {applyDateParams(url, MonthScope(LinkArgs)), applyDateParams(url, DayScope(LinkArgs))}

\* lines 345-357, for a bootstrap page
BootScanFetches ==
    /\ ics.pc = "page" /\ Scanned(findAnyIcalUrlFromHtml(ics.html)) # {}
    /\ ics' = Fetching("bootPage", Scanned(findAnyIcalUrlFromHtml(ics.html)))
    /\ UNCHANGED <<run, ref, m>>
\* lines 371-382, for the index page
IndexScanFetches ==
    /\ ics.pc = "page" /\ Scanned(findAnyIcalUrlFromHtml(ics.html)) # {}
    /\ ics' = Fetching("indexScan", Scanned(findAnyIcalUrlFromHtml(ics.html)))
    /\ UNCHANGED <<run, ref, m>>
\* lines 384-389
IndexHrefFetch ==
    /\ ics.pc = "page" /\ {findIcsExportUrlFromHtml(ics.html)} \ {NoUrl} # {}
    /\ ics' = Fetching("indexHref", {findIcsExportUrlFromHtml(ics.html)} \ {NoUrl})
    /\ UNCHANGED <<run, ref, m>>
\* lines 391-396
DomFetch ==
    /\ ics.pc = "page" /\ {discoverIcsUrl(ics.html)} \ {NoUrl} # {}
    /\ ics' = Fetching("dom", {discoverIcsUrl(ics.html)} \ {NoUrl})
    /\ UNCHANGED <<run, ref, m>>

LinkNext == BootScanFetches \/ IndexScanFetches \/ IndexHrefFetch \/ DomFetch

LinkSpec == LinkInit /\ [][LinkNext]_vars

SettingsError(st, args, e) ==
    /\ args.savePassword
    /\ \/ ~e.canEncrypt
       \/ /\ args.password # NoText
          /\ \/ st.lastVerifiedCredentialsHash = NoHash
             \/ st.lastVerifiedCredentialsHash # credentialsHash(args.username, args.password)
       \/ /\ args.password = NoText
          /\ \/ st.settings.username # args.username
             \/ st.settings.encryptedPasswordBase64 = NoPassword

\* how the last 'settings:set' ended ("ok", "refused" with ok = false, or
\* "raised"), whether it brought a password, and the number of calls so
\* far, odd or even
SettingsGhost == [lastCall |-> [result |-> "none", supplied |-> FALSE, odd |-> FALSE]]

SettingsInit ==
    /\ run = NoRun /\ ref = NoRun /\ ics = NoIcs
    /\ \E t \in StartTimes : m = [InitMain EXCEPT !.now = t] @@ SettingsGhost

\* ipcMain.handle('settings:set'), lines 369-426
SettingsSetCall ==
    /\ m.ready /\ Room
    /\ \E args \in SettingsArgs, e \in SettingsEnvs :
          m' = [settingsSet(m, args, e) EXCEPT
                   !.lastCall = [result   |-> IF SettingsError(m, args, e) THEN "refused"
                                              ELSE IF e.saveRaises THEN "raised" ELSE "ok",
                                 supplied |-> args.savePassword /\ args.password # NoText,
                                 odd      |-> ~m.lastCall.odd]]
    /\ UNCHANGED <<run, ref, ics>>

SettingsNext ==
    \/ AppReady \/ IpcSyncManual \/ TimerTick \/ SyncDone \/ SettingsSetCall

SettingsSpec == SettingsInit /\ [][SettingsNext]_vars

\* the step is a 'settings:set' that ended with `result`
SettingsSetEnded(result) ==
    m'.lastCall.odd # m.lastCall.odd /\ m'.lastCall.result = result

HasStoredPassword(st) == st.settings.encryptedPasswordBase64 # NoPassword

\* C39 (settings invariant), as claimed: auto-refresh enabled implies a
\* stored password; the timer is active only while auto-refresh is enabled
\* and a password is stored, and there is never more than one timer; and a
\* 'settings:set' with another user name than the stored one leaves nothing
\* of the password stored before, unless it stores the one it brought.
C39_SettingsInvariant ==
    /\ [](m.ready =>
            /\ m.settings.autoRefreshEnabled => HasStoredPassword(m)
            /\ m.intervals > 0 => m.settings.autoRefreshEnabled /\ HasStoredPassword(m)
            /\ m.intervals <= 1)
    /\ [][(SettingsSetEnded("ok") /\ m'.settings.username # m.settings.username)
             => (~HasStoredPassword(m') \/ m'.lastCall.supplied)]_vars


\* C40 (settings unchanged on error), as claimed: a 'settings:set' that
\* returns ok = false leaves the settings in memory, the settings file and
\* the auto-refresh timer as they were.
C40_UnchangedOnError ==
    [][SettingsSetEnded("refused") =>
          /\ m'.settings = m.settings
          /\ m'.disk = m.disk
          /\ m'.autoRefreshTimer = m.autoRefreshTimer
          /\ m'.intervals = m.intervals]_vars

\* a refused 'settings:set' with another user name than the stored one,
\* while a password is stored and the timer runs
C40_Witness ==
    /\ m.lastCall.result = "refused"
    /\ m.lastCall.odd = FALSE
    /\ HasStoredPassword(m) /\ m.disk = m.settings
    /\ m.autoRefreshTimer

=============================================================================
